---- MODULE Spec2Model ----
(***************************************************************************)
(* A model of scrape_data.py: the PlayerNameMatcher identity index, the    *)
(* match-record builder of fetch_player_matches, the scrape cache, the     *)
(* retrying _request and the thread-pool driver run_full_refresh.          *)
(*                                                                         *)
(* Strings are sequences of one-character strings, so that lower-casing,   *)
(* splitting, joining and substring tests are computed, not assumed.       *)
(* Python's None is the empty tuple <<>>, a found value x is <<x>>.        *)
(***************************************************************************)
EXTENDS Integers, Sequences, FiniteSets, TLC

None == <<>>
Some(x) == <<x>>

(***************************************************************************)
(* str helpers                                                             *)
(***************************************************************************)
LowerMap ==
    [c \in {"A", "B", "G", "L", "N", "R"} |->
        CASE c = "A" -> "a" [] c = "B" -> "b" [] c = "G" -> "g"
          [] c = "L" -> "l" [] c = "N" -> "n" [] c = "R" -> "r"]

\* str.lower()
Lower(s) == [i \in 1..Len(s) |-> IF s[i] \in DOMAIN LowerMap THEN LowerMap[s[i]] ELSE s[i]]

\* str.replace(ch, '')
RemoveChar(s, ch) == SelectSeq(s, LAMBDA c : c # ch)

\* str.split(): split on runs of whitespace, no empty parts
RECURSIVE SplitFrom(_, _, _, _)
SplitFrom(s, i, cur, acc) ==
    IF i > Len(s)
    THEN IF cur = <<>> THEN acc ELSE Append(acc, cur)
    ELSE IF s[i] = " "
         THEN SplitFrom(s, i + 1, <<>>, IF cur = <<>> THEN acc ELSE Append(acc, cur))
         ELSE SplitFrom(s, i + 1, Append(cur, s[i]), acc)

Split(s) == SplitFrom(s, 1, <<>>, <<>>)

\* sep.join(parts)
RECURSIVE Join(_, _)
Join(parts, sep) ==
    IF parts = <<>> THEN <<>>
    ELSE IF Len(parts) = 1 THEN parts[1]
    ELSE parts[1] \o sep \o Join(Tail(parts), sep)

\* str.split(sep) for a one-character separator: empty parts are kept
RECURSIVE SplitOnFrom(_, _, _, _, _)
SplitOnFrom(s, sep, i, cur, acc) ==
    IF i > Len(s) THEN Append(acc, cur)
    ELSE IF s[i] = sep
         THEN SplitOnFrom(s, sep, i + 1, <<>>, Append(acc, cur))
         ELSE SplitOnFrom(s, sep, i + 1, Append(cur, s[i]), acc)

SplitOn(s, sep) == SplitOnFrom(s, sep, 1, <<>>, <<>>)

\* str.strip()
RECURSIVE LStrip(_)
LStrip(s) == IF s # <<>> /\ s[1] = " " THEN LStrip(Tail(s)) ELSE s

RECURSIVE RStrip(_)
RStrip(s) == IF s # <<>> /\ s[Len(s)] = " " THEN RStrip(SubSeq(s, 1, Len(s) - 1)) ELSE s

Strip(s) == RStrip(LStrip(s))

\* a in b  (substring test)
IsSubstr(a, b) ==
    \E i \in 0..(Len(b) - Len(a)) : SubSeq(b, i + 1, i + Len(a)) = a

\* dict helpers: a dict is a function on its set of keys
HasKey(d, k) == k \in DOMAIN d
DictPut(d, k, v) == [x \in DOMAIN d \cup {k} |-> IF x = k THEN v ELSE d[x]]
EmptyDict == [x \in {} |-> 0]

(***************************************************************************)
(* PlayerNameMatcher                                                       *)
(***************************************************************************)
_normalize(name) ==
    IF name = <<>> THEN <<>>
    ELSE Join(Split(RemoveChar(Strip(Lower(name)), ".")), <<" ">>)

\* _extract_components with the two initial tests in the other order
ExtractFirstInitialFirst(name) ==
    LET parts == Split(_normalize(name))
        n == Len(parts)
        mid == IF n > 2 THEN Join(SubSeq(parts, 2, n - 1), <<" ">>) ELSE <<>>
    IN  IF n = 0 THEN [last_name |-> <<>>, first_name |-> <<>>, first_initial |-> <<>>,
                       all_parts |-> <<>>]
        ELSE IF n = 1 THEN [last_name |-> parts[1], first_name |-> <<>>,
                            first_initial |-> <<>>, all_parts |-> parts]
        ELSE IF Len(parts[1]) = 1
             THEN [last_name |-> parts[n], first_name |-> mid, first_initial |-> parts[1],
                   all_parts |-> parts]
        ELSE IF Len(parts[n]) = 1
             THEN [last_name |-> parts[1], first_name |-> mid, first_initial |-> parts[n],
                   all_parts |-> parts]
        ELSE [last_name |-> parts[n], first_name |-> parts[1],
              first_initial |-> <<parts[1][1]>>, all_parts |-> parts]

_extract_components(name) ==
    LET empty == [last_name |-> <<>>, first_name |-> <<>>, first_initial |-> <<>>,
                  all_parts |-> <<>>]
    IN  IF name = <<>> THEN empty
        ELSE LET parts == Split(_normalize(name))
                 n == Len(parts)
             IN  IF n = 0 THEN empty
                 ELSE IF n = 1 THEN [empty EXCEPT !.last_name = parts[1], !.all_parts = parts]
                 ELSE IF Len(parts[n]) = 1
                      THEN [last_name |-> parts[1],
                            first_name |-> IF n > 2 THEN Join(SubSeq(parts, 2, n - 1), <<" ">>)
                                           ELSE <<>>,
                            first_initial |-> parts[n],
                            all_parts |-> parts]
                 ELSE IF Len(parts[1]) = 1
                      THEN [last_name |-> parts[n],
                            first_name |-> IF n > 2 THEN Join(SubSeq(parts, 2, n - 1), <<" ">>)
                                           ELSE <<>>,
                            first_initial |-> parts[1],
                            all_parts |-> parts]
                 ELSE [last_name |-> parts[n],
                       first_name |-> parts[1],
                       first_initial |-> <<parts[1][1]>>,
                       all_parts |-> parts]

\* PlayerNameMatcher.__init__: players keeps the dict's insertion order
EmptyIndex ==
    [players |-> <<>>, by_full_name |-> EmptyDict, by_last_name |-> EmptyDict,
     by_name_parts |-> EmptyDict, by_last_initial |-> EmptyDict]

\* an add_player that leaves self.players as it was
PlayersKept(players, pid, name) == players

\* players[player_id] = full_name on an insertion-ordered dict
PlayersPut(players, pid, name) ==
    IF \E i \in 1..Len(players) : players[i][1] = pid
    THEN [i \in 1..Len(players) |-> IF players[i][1] = pid THEN <<pid, name>> ELSE players[i]]
    ELSE Append(players, <<pid, name>>)

\* d.setdefault(k, []).append(v)
ListAppend(d, k, v) == DictPut(d, k, IF HasKey(d, k) THEN Append(d[k], v) ELSE <<v>>)

\* the first one-character part, else the first character of the first other long part
RECURSIVE PartInitial(_, _, _)
PartInitial(parts, part, i) ==
    IF i > Len(parts) THEN <<>>
    ELSE IF Len(parts[i]) = 1 THEN parts[i]
    ELSE IF parts[i] # part /\ Len(parts[i]) > 1 THEN <<parts[i][1]>>
    ELSE PartInitial(parts, part, i + 1)

RECURSIVE IndexNameParts(_, _, _, _, _)
IndexNameParts(d, parts, i, pid, name) ==
    IF i > Len(parts) THEN d
    ELSE IndexNameParts(IF Len(parts[i]) > 1 THEN ListAppend(d, parts[i], <<pid, name>>) ELSE d,
                        parts, i + 1, pid, name)

RECURSIVE IndexPartsAsLast(_, _, _, _, _)
IndexPartsAsLast(d, parts, i, pid, name) ==
    IF i > Len(parts) THEN d
    ELSE LET part == parts[i]
             cur == IF HasKey(d, part) THEN d[part] ELSE <<>>
             present == \E j \in 1..Len(cur) : cur[j][1] = pid /\ cur[j][2] = name
             d2 == IF Len(part) > 1
                   THEN DictPut(d, part,
                                IF present THEN cur
                                ELSE Append(cur, <<pid, name, PartInitial(parts, part, 1)>>))
                   ELSE d
         IN  IndexPartsAsLast(d2, parts, i + 1, pid, name)

add_player(idx, pid, name) ==
    IF name = <<>> THEN idx
    ELSE
    LET normalized == _normalize(name)
        c == _extract_components(name)
        full1 == DictPut(idx.by_full_name, normalized, pid)
        full2 == DictPut(full1, RemoveChar(normalized, " "), pid)
        nparts == IndexNameParts(idx.by_name_parts, c.all_parts, 1, pid, name)
        last_name == c.last_name
        first_initial == IF c.first_initial # <<>> THEN c.first_initial
                         ELSE IF c.first_name # <<>> THEN <<c.first_name[1]>> ELSE <<>>
        lastOk == Len(last_name) > 1
        bl1 == IF lastOk
               THEN ListAppend(idx.by_last_name, last_name, <<pid, name, first_initial>>)
               ELSE idx.by_last_name
        bli == IF lastOk /\ first_initial # <<>>
               THEN ListAppend(idx.by_last_initial, last_name \o <<"_">> \o first_initial,
                               <<pid, name>>)
               ELSE idx.by_last_initial
        bl2 == IndexPartsAsLast(bl1, c.all_parts, 1, pid, name)
    IN  [players |-> PlayersPut(idx.players, pid, name),
         by_full_name |-> full2,
         by_last_name |-> bl2,
         by_name_parts |-> nparts,
         by_last_initial |-> bli]

(* find_player_id *)
\* sorted(parts, key=len, reverse=True): stable, equal lengths keep their order
RECURSIVE InsertByLen(_, _)
InsertByLen(sorted, p) ==
    IF sorted = <<>> THEN <<p>>
    ELSE IF Len(sorted[1]) < Len(p) THEN <<p>> \o sorted
    ELSE <<sorted[1]>> \o InsertByLen(Tail(sorted), p)

RECURSIVE SortByLenDesc(_, _, _)
SortByLenDesc(parts, i, acc) ==
    IF i > Len(parts) THEN acc
    ELSE SortByLenDesc(parts, i + 1, InsertByLen(acc, parts[i]))

\* min(parts, key=len): the first part of minimal length
MinByLen(parts) ==
    LET i == CHOOSE k \in 1..Len(parts) :
                 /\ \A j \in 1..Len(parts) : Len(parts[k]) <= Len(parts[j])
                 /\ \A j \in 1..(k - 1) : Len(parts[j]) > Len(parts[k])
    IN  parts[i]

\* the first one-character part of the query, or None
FirstSingle(parts) ==
    IF \E i \in 1..Len(parts) : Len(parts[i]) = 1
    THEN LET i == CHOOSE k \in 1..Len(parts) :
                      Len(parts[k]) = 1 /\ \A j \in 1..(k - 1) : Len(parts[j]) # 1
         IN  parts[i]
    ELSE <<>>

QueryInitial(all_parts, significant_parts) ==
    LET single == FirstSingle(all_parts)
    IN  IF single # <<>> THEN single
        ELSE IF Len(significant_parts) >= 2 THEN <<MinByLen(significant_parts)[1]>>
        ELSE <<>>

\* [(pid, fn) for pid, fn, fi in candidates if fi and fi[0] == initial]
MatchingInitial(candidates, initial) ==
    SelectSeq(candidates, LAMBDA c : c[3] # <<>> /\ <<c[3][1]>> = initial)

Positive(cands) == SelectSeq(cands, LAMBDA c : c[1] > 0)

\* one match, else the first positive id, else the first match; None without a match
PickByInitial(candidates, initial) ==
    LET matching == MatchingInitial(candidates, initial)
        positive == Positive(matching)
    IN  IF Len(matching) = 1 THEN Some(matching[1][1])
        ELSE IF matching # <<>>
             THEN IF positive # <<>> THEN Some(positive[1][1]) ELSE Some(matching[1][1])
        ELSE None

\* Strategy 2: the loop over the significant parts, longest first
RECURSIVE Strategy2(_, _, _, _)
Strategy2(idx, parts, i, initial) ==
    IF i > Len(parts) THEN None
    ELSE LET part == parts[i]
         IN  IF Len(part) < 3 \/ ~HasKey(idx.by_last_name, part)
             THEN Strategy2(idx, parts, i + 1, initial)
             ELSE LET candidates == idx.by_last_name[part]
                      byInit == IF initial # <<>> THEN PickByInitial(candidates, initial)
                                ELSE None
                  IN  IF byInit # None THEN byInit
                      ELSE IF Len(candidates) = 1 THEN Some(candidates[1][1])
                      ELSE Strategy2(idx, parts, i + 1, initial)

\* Strategy 3: last_name + "_" + initial
Strategy3(idx, c, initial) ==
    LET last_name == c.last_name
        first_initial == IF c.first_initial # <<>> THEN c.first_initial ELSE initial
        key == last_name \o <<"_">> \o first_initial
    IN  IF Len(last_name) >= 3 /\ first_initial # <<>> /\ HasKey(idx.by_last_initial, key)
        THEN LET candidates == idx.by_last_initial[key]
                 positive == Positive(candidates)
             IN  IF Len(candidates) = 1 THEN Some(candidates[1][1])
                 ELSE IF positive # <<>> THEN Some(positive[1][1])
                 ELSE Some(candidates[1][1])
        ELSE None

\* sum(1 for sp in long_parts if any(sp == fp or sp in fp or fp in sp for fp in fn_parts))
FuzzyMatches(long_parts, fn_parts) ==
    Cardinality({i \in 1..Len(long_parts) :
        \E j \in 1..Len(fn_parts) :
            \/ long_parts[i] = fn_parts[j]
            \/ IsSubstr(long_parts[i], fn_parts[j])
            \/ IsSubstr(fn_parts[j], long_parts[i])})

\* the scan of self.players.items(), in insertion order; best is <<match, score>>
RECURSIVE FuzzyScan(_, _, _, _)
FuzzyScan(players, long_parts, i, best) ==
    IF i > Len(players) THEN best[1]
    ELSE LET pid == players[i][1]
             matches == FuzzyMatches(long_parts, Split(_normalize(players[i][2])))
             score == matches * 10 + (IF pid > 0 THEN 1 ELSE 0)
         IN  FuzzyScan(players, long_parts, i + 1,
                       IF matches = Len(long_parts) /\ score > best[2]
                       THEN <<Some(pid), score>> ELSE best)

\* Strategy 4: "if best_match:" is false for None and for the id 0
Strategy4(idx, significant_parts) ==
    LET long_parts == SelectSeq(significant_parts, LAMBDA p : Len(p) >= 3)
    IN  IF Len(significant_parts) >= 2 /\ Len(long_parts) >= 2
        THEN LET best == FuzzyScan(idx.players, long_parts, 1, <<None, 0>>)
             IN  IF best # None /\ best # Some(0) THEN best ELSE None
        ELSE None

\* Strategy 5: a single significant part with an initial
Strategy5(idx, significant_parts, initial) ==
    IF Len(significant_parts) = 1 /\ initial # <<>>
       /\ Len(significant_parts[1]) >= 3 /\ HasKey(idx.by_last_name, significant_parts[1])
    THEN PickByInitial(idx.by_last_name[significant_parts[1]], initial)
    ELSE None

find_player_id(idx, name) ==
    IF name = <<>> THEN None
    ELSE
    LET normalized == _normalize(name)
        c == _extract_components(name)
        no_spaces == RemoveChar(normalized, " ")
        significant_parts ==
            SortByLenDesc(SelectSeq(c.all_parts, LAMBDA p : Len(p) > 1), 1, <<>>)
        initial == QueryInitial(c.all_parts, significant_parts)
        s2 == Strategy2(idx, significant_parts, 1, initial)
        s3 == Strategy3(idx, c, initial)
        s4 == Strategy4(idx, significant_parts)
    IN  IF HasKey(idx.by_full_name, normalized) THEN Some(idx.by_full_name[normalized])
        ELSE IF HasKey(idx.by_full_name, no_spaces) THEN Some(idx.by_full_name[no_spaces])
        ELSE IF s2 # None THEN s2
        ELSE IF s3 # None THEN s3
        ELSE IF s4 # None THEN s4
        ELSE Strategy5(idx, significant_parts, initial)

(***************************************************************************)
(* datetime: dates are <<year, month, day>>; today's time of day never     *)
(* changes a comparison with a midnight date nor a .days difference        *)
(***************************************************************************)
IsLeap(y) == (y % 4 = 0 /\ y % 100 # 0) \/ y % 400 = 0

DaysInMonth(y, m) ==
    IF m = 2 THEN (IF IsLeap(y) THEN 29 ELSE 28)
    ELSE IF m \in {4, 6, 9, 11} THEN 30 ELSE 31

\* datetime.strptime(s, '%Y-%m-%d') raises ValueError unless this holds
ValidDate(d) == d[2] \in 1..12 /\ d[3] >= 1 /\ d[3] <= DaysInMonth(d[1], d[2])

RECURSIVE DaysBeforeMonth(_, _)
DaysBeforeMonth(y, m) == IF m <= 1 THEN 0 ELSE DaysBeforeMonth(y, m - 1) + DaysInMonth(y, m - 1)

\* date.toordinal()
Ordinal(d) ==
    LET y == d[1] - 1
    IN  365 * y + (y \div 4) - (y \div 100) + (y \div 400) + DaysBeforeMonth(d[1], d[2]) + d[3]

\* a > b on two dates
DateAfter(a, b) == Ordinal(a) > Ordinal(b)

\* a < b on 'YYYY-MM-DD' strings (zero-padded month and day, four-digit years)
DateStrLess(a, b) ==
    \/ a[1] < b[1]
    \/ a[1] = b[1] /\ a[2] < b[2]
    \/ a[1] = b[1] /\ a[2] = b[2] /\ a[3] < b[3]

\* (today - timedelta(days=n)) as a date
DateMinusDays(today, n) ==
    CHOOSE d \in {<<y, m, dd>> : y \in (today[1] - 2)..today[1], m \in 1..12, dd \in 1..31} :
        ValidDate(d) /\ Ordinal(d) = Ordinal(today) - n

\* no year detection: the day and month are taken in today's year
MatchDateOfTodaysYear(current_year, month, day, today) == <<today[1], month, day>>

\* no year detection: the day and month are taken in the tournament's year
MatchDateOfHintYear(current_year, month, day, today) == <<current_year, month, day>>

\* the "smart year detection" of fetch_player_matches: the match_date of a row
\* with the given day and month under the tournament year current_year
MatchDate(current_year, month, day, today) ==
    LET first == <<current_year, month, day>>
        thisYear == <<today[1], month, day>>
        lastYear == <<today[1] - 1, month, day>>
        newer == <<current_year + 1, month, day>>
        days_ago == Ordinal(today) - Ordinal(first)
    IN  IF ~ValidDate(first) THEN first
        ELSE IF DateAfter(first, today)
             THEN IF ~ValidDate(thisYear) THEN thisYear
                  ELSE IF DateAfter(thisYear, today) THEN lastYear ELSE thisYear
        ELSE IF current_year = today[1] - 1 /\ month <= today[2]
             THEN IF ~ValidDate(thisYear) THEN first
                  ELSE LET current_year_days_ago == Ordinal(today) - Ordinal(thisYear)
                       IN  IF current_year_days_ago >= 0 /\ current_year_days_ago <= 30
                              /\ days_ago > 300
                           THEN thisYear ELSE first
        ELSE IF days_ago > 350
             THEN IF ValidDate(newer) /\ ~DateAfter(newer, today) THEN newer ELSE first
        ELSE first

(***************************************************************************)
(* hash(): Python salts str hashes per process (PYTHONHASHSEED), so the    *)
(* hash function of a run is one of several; three of them are tabulated   *)
(***************************************************************************)
HashMod == 1000000000

SlugAna == <<"r", "o", "d", "-", "a", "n", "a">>
SlugAl == <<"r", "o", "d", "-", "a", "l">>
SlugBo == <<"g", "r", "u", "b", "o", "r">>
DisplayRodA == <<"R", "o", "d", " ", "A", ".">>
DisplayGruborB == <<"G", "r", "u", "b", "o", "r", " ", "B", ".">>

Seeds == {1, 2, 3}

\* hash(s) in the process whose salt is seed: a signed value, sampled here within
\* 32 bits (its reduction modulo 10**9 is the same computation at any width)
PyHash(seed, s) ==
    CASE seed = 1 ->
            (CASE s = SlugAna -> 101 [] s = SlugAl -> 102 [] s = SlugBo -> 103
               [] s = DisplayRodA -> 104 [] OTHER -> 105)
      [] seed = 2 ->
            (CASE s = SlugAna -> 201 [] s = SlugAl -> 202 - HashMod
               [] s = SlugBo -> 203 + HashMod
               [] s = DisplayRodA -> 204 [] OTHER -> 205)
      [] OTHER ->
            (CASE s = SlugAna -> 0 [] s = SlugAl -> 302 [] s = SlugBo -> 303
               [] s = DisplayRodA -> 304 - 2 * HashMod [] OTHER -> 305)

Abs(n) == IF n < 0 THEN -n ELSE n

\* player_id = hash(s) % (10**9); if tour == 'WTA': player_id = -abs(player_id)
HashId(seed, s, tour) ==
    LET h == PyHash(seed, s) % HashMod
    IN  IF tour = "WTA" THEN -Abs(h) ELSE h

(***************************************************************************)
(* str(int) and the match id                                               *)
(***************************************************************************)
Digit(n) == CASE n = 0 -> "0" [] n = 1 -> "1" [] n = 2 -> "2" [] n = 3 -> "3" [] n = 4 -> "4"
              [] n = 5 -> "5" [] n = 6 -> "6" [] n = 7 -> "7" [] n = 8 -> "8" [] OTHER -> "9"

RECURSIVE NatToStr(_)
NatToStr(n) == IF n < 10 THEN <<Digit(n)>> ELSE Append(NatToStr(n \div 10), Digit(n % 10))

\* s.zfill(2) of the decimal digits of n
ZFill2(n) == IF n < 10 THEN <<"0", Digit(n)>> ELSE NatToStr(n)

\* f"{year}-{month.zfill(2)}-{day.zfill(2)}"
DateStr(d) == NatToStr(d[1]) \o <<"-">> \o ZFill2(d[2]) \o <<"-">> \o ZFill2(d[3])

\* f"TE_{match_date}_{abs(winner_id)}_{abs(loser_id)}"
MatchId(match_date, winner_id, loser_id) ==
    <<"T", "E", "_">> \o DateStr(match_date) \o <<"_">> \o NatToStr(Abs(winner_id))
        \o <<"_">> \o NatToStr(Abs(loser_id))

(***************************************************************************)
(* fetch_player_matches: the rows of a player page turned into records     *)
(***************************************************************************)
MaxMatches == 30

ClayTournaments == {"Rome", "Madrid"}
GrassTournaments == {"Halle"}

_guess_surface(tournament) ==
    IF tournament \in ClayTournaments THEN "Clay"
    ELSE IF tournament \in GrassTournaments THEN "Grass"
    ELSE "Hard"

\* player_name.split()[-1].lower() if player_name else ""
PlayerLastName(player_name) ==
    IF player_name = <<>> THEN <<>>
    ELSE LET p == Split(player_name) IN Lower(p[Len(p)])

\* the opponent's id: the matcher's answer, else a hash of the link's slug or of the name
OpponentId(index, seed, tour, opponent_name, link) ==
    LET found == find_player_id(index, opponent_name)
    IN  IF found # None THEN found[1]
        ELSE HashId(seed, IF link # None THEN link[1] ELSE opponent_name, tour)

\* the record of a row, once the winner is known and the opponent resolved
MatchRecord(player_id, player_name, tour, row, st, match_date, is_win, opponent_name, opponent_id) ==
    [id |-> IF is_win THEN MatchId(match_date, player_id, opponent_id)
            ELSE MatchId(match_date, opponent_id, player_id),
     date |-> match_date,
     tournament |-> st.tournament,
     surface |-> st.surface,
     round |-> row.round,
     winner_id |-> IF is_win THEN player_id ELSE opponent_id,
     winner_name |-> IF is_win THEN player_name ELSE opponent_name,
     loser_id |-> IF is_win THEN opponent_id ELSE player_id,
     loser_name |-> IF is_win THEN opponent_name ELSE player_name,
     score |-> row.score,
     tour |-> tour]

\* "Winner-Loser": the subject won when its last name occurs in the first name
RowRecord(index, seed, player_id, player_name, tour, row, st, match_date, is_win, opponent_name) ==
    MatchRecord(player_id, player_name, tour, row, st, match_date, is_win, opponent_name,
                OpponentId(index, seed, tour, opponent_name, row.link))

RowPlayers(index, seed, player_id, player_name, tour, row, st, match_date, players, is_win) ==
    RowRecord(index, seed, player_id, player_name, tour, row, st, match_date, is_win,
              IF is_win THEN Strip(players[2]) ELSE Strip(players[1]))

RowText(index, seed, player_id, player_name, tour, row, st, match_date, match_text, players) ==
    IF \E i \in 1..Len(match_text) : match_text[i] = "/" THEN None
    ELSE IF Len(players) # 2 THEN None
    ELSE Some(RowPlayers(index, seed, player_id, player_name, tour, row, st, match_date,
                         players,
                         IsSubstr(PlayerLastName(player_name), Lower(Strip(players[1])))))

RowDated(index, seed, player_id, player_name, tour, row, st, match_date, cutoff_date) ==
    IF cutoff_date # None /\ DateStrLess(match_date, cutoff_date[1]) THEN None
    ELSE IF row.text = None THEN None
    ELSE RowText(index, seed, player_id, player_name, tour, row, st, match_date,
                 Strip(row.text[1]), SplitOn(Strip(row.text[1]), "-"))

\* one match row; None when the row is skipped
BuildMatch(index, seed, player_id, player_name, tour, row, st, today, cutoff_date) ==
    IF row.date = None THEN None
    ELSE RowDated(index, seed, player_id, player_name, tour, row, st,
                  MatchDate(st.year, row.date[1][2], row.date[1][1], today), cutoff_date)

\* a year/tournament header row
HeaderRow(row, st) ==
    IF ~row.linked THEN st
    ELSE LET t == IF row.tournament # None THEN row.tournament[1] ELSE st.tournament
         IN  [year |-> IF row.year # None THEN row.year[1] ELSE st.year,
              tournament |-> t,
              surface |-> _guess_surface(t)]

\* matches.append(m), unless the row was skipped; each record is kept with the index
\* of the row it was built from
AppendBuilt(matches, i, m) == IF m = None THEN matches ELSE Append(matches, <<i, m[1]>>)

\* the loop over the rows: header rows set st, the loop returns at max_matches records
RECURSIVE BuildRows(_, _, _, _, _, _, _, _, _, _, _)
BuildRows(index, seed, player_id, player_name, tour, rows, i, st, matches, today, cutoff_date) ==
    IF i > Len(rows) \/ Len(matches) >= MaxMatches THEN matches
    ELSE BuildRows(index, seed, player_id, player_name, tour, rows, i + 1,
                   IF rows[i].kind = "header" THEN HeaderRow(rows[i], st) ELSE st,
                   IF rows[i].kind = "header" THEN matches
                   ELSE AppendBuilt(matches, i,
                                    BuildMatch(index, seed, player_id, player_name, tour,
                                               rows[i], st, today, cutoff_date)),
                   today, cutoff_date)

\* page is None when _request gave no response, else the rows of table.result
BuiltRows(index, seed, slug, player_name, tour, page, today, cutoff_date) ==
    IF page = None THEN <<>>
    ELSE BuildRows(index, seed, HashId(seed, slug, tour), player_name, tour, page[1], 1,
                   [year |-> today[1], tournament |-> "", surface |-> "Hard"],
                   <<>>, today, cutoff_date)

Records(b) == [k \in 1..Len(b) |-> b[k][2]]

fetch_player_matches(index, seed, slug, player_name, tour, page, today, cutoff_date) ==
    Records(BuiltRows(index, seed, slug, player_name, tour, page, today, cutoff_date))

(***************************************************************************)
(* The sqlite tables                                                       *)
(***************************************************************************)
\* INSERT OR REPLACE INTO players: one row per id, kept in id order
RECURSIVE InsertSorted(_, _)
InsertSorted(rows, r) ==
    IF rows = <<>> THEN <<r>>
    ELSE IF rows[1].id = r.id THEN <<r>> \o Tail(rows)
    ELSE IF rows[1].id > r.id THEN <<r>> \o rows
    ELSE <<rows[1]>> \o InsertSorted(Tail(rows), r)

\* INSERT OR REPLACE in the place of INSERT OR IGNORE: the later record wins
InsertOrReplaceRow(table, m) ==
    IF \E i \in 1..Len(table) : table[i].id = m.id
    THEN [i \in 1..Len(table) |-> IF table[i].id = m.id THEN m ELSE table[i]]
    ELSE Append(table, m)

\* one INSERT OR IGNORE INTO matches: id is the PRIMARY KEY, a row whose id is in the
\* table is dropped
InsertOrIgnoreRow(table, m) ==
    IF \E i \in 1..Len(table) : table[i].id = m.id THEN table ELSE Append(table, m)

\* the loop over the matches of one save_matches call
RECURSIVE InsertOrIgnore(_, _)
InsertOrIgnore(table, matches) ==
    IF matches = <<>> THEN table
    ELSE InsertOrIgnore(InsertOrIgnoreRow(table, matches[1]), Tail(matches))

save_matches(table, matches) == IF matches = <<>> THEN table ELSE InsertOrIgnore(table, matches)

\* _load_players_into_matcher: add_player for every row of SELECT id, name FROM players
RECURSIVE LoadPlayers(_, _)
LoadPlayers(index, rows) ==
    IF rows = <<>> THEN index
    ELSE LoadPlayers(add_player(index, rows[1].id, rows[1].name), Tail(rows))

(***************************************************************************)
(* find_player_slug over player_slugs, an insertion-ordered dict of        *)
(* <<key, [slug, tour]>>                                                   *)
(***************************************************************************)
\* no accented letter occurs in the names used here
_normalize_name(name) == Strip(Lower(name))

SlugGet(slugs, key) ==
    IF \E i \in 1..Len(slugs) : slugs[i][1] = key
    THEN Some(slugs[CHOOSE i \in 1..Len(slugs) : slugs[i][1] = key][2])
    ELSE None

\* f"{parts[-1]} {' '.join(parts[:-1])}"
ReversedName(parts) == parts[Len(parts)] \o <<" ">> \o Join(SubSeq(parts, 1, Len(parts) - 1), <<" ">>)

\* the partial match: the first entry whose key contains the last and the first name
PartialSlug(slugs, last_name, first_name) ==
    LET hit(i) == IsSubstr(last_name, slugs[i][1]) /\ first_name # <<>>
                  /\ IsSubstr(first_name, slugs[i][1])
    IN  IF \E i \in 1..Len(slugs) : hit(i)
        THEN Some(slugs[CHOOSE i \in 1..Len(slugs) : hit(i) /\ \A j \in 1..(i - 1) : ~hit(j)][2])
        ELSE None

\* guessed: what _guess_and_verify_slug would return (None without a session or a hit).
\* Returns <<result, player_slugs afterwards>>.
find_player_slug(slugs, player_name, guessed) ==
    LET key == _normalize_name(player_name)
        parts == Split(player_name)
        direct == SlugGet(slugs, key)
        reversed == IF Len(parts) >= 2 THEN SlugGet(slugs, _normalize_name(ReversedName(parts)))
                    ELSE None
        last_name == IF parts # <<>> THEN _normalize_name(parts[Len(parts)]) ELSE key
        first_name == IF Len(parts) > 1 THEN _normalize_name(parts[1]) ELSE <<>>
        partial == PartialSlug(slugs, last_name, first_name)
    IN  IF direct # None THEN <<direct, slugs>>
        ELSE IF reversed # None THEN <<reversed, slugs>>
        ELSE IF partial # None THEN <<partial, slugs>>
        ELSE IF guessed # None THEN <<guessed, Append(slugs, <<key, guessed[1]>>)>>
        ELSE <<None, slugs>>

(***************************************************************************)
(* The scrape cache: lower-cased name -> isoformat timestamp.  Time is     *)
(* counted in ticks, TicksPerDay of them a day; a timestamp is written as  *)
(* "<day>T<tick of the day>" and parsed back                               *)
(***************************************************************************)
CACHE_TTL_DAYS == 7

TicksPerDay == 2

DigitVal(c) ==
    CASE c = "0" -> 0 [] c = "1" -> 1 [] c = "2" -> 2 [] c = "3" -> 3 [] c = "4" -> 4
      [] c = "5" -> 5 [] c = "6" -> 6 [] c = "7" -> 7 [] c = "8" -> 8 [] c = "9" -> 9

\* int(s) for a string of digits
RECURSIVE StrToNat(_)
StrToNat(s) ==
    IF s = <<>> THEN 0 ELSE StrToNat(SubSeq(s, 1, Len(s) - 1)) * 10 + DigitVal(s[Len(s)])

\* datetime.isoformat()
isoformat(t) == NatToStr(t \div TicksPerDay) \o <<"T">> \o NatToStr(t % TicksPerDay)

\* datetime.fromisoformat()
fromisoformat(s) ==
    LET p == SplitOn(s, "T") IN StrToNat(p[1]) * TicksPerDay + StrToNat(p[2])

IsDigits(s) == s # <<>> /\ \A i \in 1..Len(s) : s[i] \in {"0", "1", "2", "3", "4", "5", "6", "7", "8", "9"}

\* datetime.fromisoformat(s) returns: it raises ValueError on any other string
ParsesAsTimestamp(s) ==
    LET p == SplitOn(s, "T") IN Len(p) = 2 /\ IsDigits(p[1]) /\ IsDigits(p[2])

\* _should_scrape_player raises: the entry of a non-priority subject does not parse
ShouldScrapeRaises(cache, player_name, is_priority) ==
    /\ ~is_priority
    /\ HasKey(cache, Lower(player_name))
    /\ ~ParsesAsTimestamp(cache[Lower(player_name)])

\* (a - b).days: whole days, rounded down
TimedeltaDays(a, b) == (a - b) \div TicksPerDay

\* age_days <= CACHE_TTL_DAYS in the place of age_days < CACHE_TTL_DAYS
ShouldScrapeAfterTtlDay(cache, t, player_name, is_priority) ==
    IF is_priority THEN TRUE
    ELSE IF HasKey(cache, Lower(player_name))
            /\ TimedeltaDays(t, fromisoformat(cache[Lower(player_name)])) <= CACHE_TTL_DAYS
         THEN FALSE
         ELSE TRUE

_should_scrape_player(cache, t, player_name, is_priority) ==
    IF is_priority THEN TRUE
    ELSE IF HasKey(cache, Lower(player_name))
            /\ TimedeltaDays(t, fromisoformat(cache[Lower(player_name)])) < CACHE_TTL_DAYS
         THEN FALSE
         ELSE TRUE

_mark_player_scraped(cache, t, player_name) == DictPut(cache, Lower(player_name), isoformat(t))

(***************************************************************************)
(* _request: one pass of the retry loop                                    *)
(***************************************************************************)
DefaultMaxRetries == 3

\* what the remote can answer: a status code, or "error" when session.get raises
Outcomes == {"200", "429", "404", "500", "503", "error"}

\* a loop that treats 404 as any other error status and tries again
AfterAttemptRetrying404(att, retries, outcome) ==
    CASE outcome = "200" -> [ret |-> Some("response"), wait |-> None]
      [] outcome = "429" ->
            [ret |-> IF att + 1 < retries THEN None ELSE Some("None"),
             wait |-> Some((att + 1) * 60)]
      [] outcome = "error" ->
            IF att < retries - 1 THEN [ret |-> None, wait |-> Some((att + 1) * 15)]
            ELSE [ret |-> Some("None"), wait |-> None]
      [] OTHER ->
            [ret |-> IF att + 1 < retries THEN None ELSE Some("None"), wait |-> Some(10)]

\* the end of one pass of the loop: ret is Some("response") or Some("None") when the
\* function returns, wait is the time.sleep(wait_time) of the pass
AfterAttempt(att, retries, outcome) ==
    CASE outcome = "200" -> [ret |-> Some("response"), wait |-> None]
      [] outcome = "404" -> [ret |-> Some("None"), wait |-> None]
      [] outcome = "429" ->
            [ret |-> IF att + 1 < retries THEN None ELSE Some("None"),
             wait |-> Some((att + 1) * 60)]
      [] outcome = "error" ->
            IF att < retries - 1 THEN [ret |-> None, wait |-> Some((att + 1) * 15)]
            ELSE [ret |-> Some("None"), wait |-> None]
      [] OTHER ->
            [ret |-> IF att + 1 < retries THEN None ELSE Some("None"), wait |-> Some(10)]

(***************************************************************************)
(* run_full_refresh: the queue and the tally of the as_completed loop      *)
(***************************************************************************)
\* the loops with "if p not in seen": names are compared as written
RECURSIVE EnqueueCaseSensitive(_, _, _)
EnqueueCaseSensitive(st, names, flag) ==
    IF names = <<>> THEN st
    ELSE EnqueueCaseSensitive(IF names[1] \in st[2] THEN st
                              ELSE <<Append(st[1], <<names[1], flag>>), st[2] \cup {names[1]}>>,
                              Tail(names), flag)

\* one of the two loops that fill player_queue; st is <<player_queue, seen>>
RECURSIVE Enqueue(_, _, _)
Enqueue(st, names, flag) ==
    IF names = <<>> THEN st
    ELSE Enqueue(IF Lower(names[1]) \in st[2] THEN st
                 ELSE <<Append(st[1], <<names[1], flag>>), st[2] \cup {Lower(names[1])}>>,
                 Tail(names), flag)

\* priority_players in the order the set is iterated, then the static list
PlayerQueue(priority_players, all_players) ==
    Enqueue(Enqueue(<<<<>>, {}>>, priority_players, TRUE), all_players, FALSE)[1]

\* result = {'name', 'found', 'matches', 'skipped'} at the start of a task; raised is
\* the exception the future holds, response and marked record the match-page fetch
\* and the cache mark of the task
NewTask(name, is_priority) ==
    [pc |-> "queued", name |-> name, is_priority |-> is_priority, found |-> FALSE,
     matches |-> 0, skipped |-> FALSE, raised |-> FALSE, response |-> FALSE,
     fetched |-> 0, marked |-> FALSE]

\* a loop without the except clause: what a task raised leaves the loop
NeverCaught(t) == FALSE

\* except Exception around future.result(): whatever the task raised is caught
Caught(t) == t.raised

\* an except clause that only logs
NotFoundUnlessRaised(not_found, t) ==
    IF t.raised \/ t.skipped \/ t.found THEN not_found ELSE Append(not_found, t.name)

\* players_not_found after one pass of the as_completed loop
NotFoundAfter(not_found, t) ==
    IF t.raised THEN Append(not_found, t.name)
    ELSE IF t.skipped \/ t.found THEN not_found
    ELSE Append(not_found, t.name)

(***************************************************************************)
(* State                                                                   *)
(***************************************************************************)
VARIABLES
    idx,          \* the PlayerNameMatcher of the scraper (name_matcher)
    adds,         \* add_player calls made so far
    lastQuery,    \* the argument of the last find_player_id call
    lastResult,   \* and what it returned
    seed,         \* the hash salt of the running process
    today,        \* datetime.now() of the run, as a date
    cutoff_date,  \* the run's cutoff (12 months back)
    player_slugs, \* name key -> [slug, tour]
    playersDb,    \* the players table
    matchesDb,    \* the matches table
    scraped,      \* the subjects scraped in this run
    runs,         \* processes started so far
    built,        \* history: [run, page, row, src, id] of every record built
    assigned,     \* history: <<slug, tour, player id>> of every subject id computed
    scrape_cache, \* lower-cased name -> isoformat timestamp
    now,          \* datetime.now(), in ticks
    markedAt,     \* history: the tick at which each cache key was last marked
    lastCheck,    \* the _should_scrape_player call just made and what it returned
    attempt,      \* _request: the loop variable
    max_retries,  \* _request: its parameter
    responses,    \* _request: what each session.get of the call gave
    waits,        \* _request: the wait_time slept after each pass
    returned,     \* _request: None while in the loop, then what it returned
    db_lock,      \* the worker inside "with self.db_lock", or None
    saving,       \* per worker: None, or the matches and position of its save_matches call
    saves,        \* save_matches calls made so far
    player_queue, \* run_full_refresh: the (name, is_priority) queue
    max_workers,  \* run_full_refresh: its parameter
    task,         \* per queue position: the task and its future
    phase,        \* run_full_refresh: "collect", "summary" or "aborted"
    collected,    \* queue positions in the order as_completed yielded them
    completed,
    players_found,
    players_skipped,
    players_not_found,
    total_matches,
    cache_file,   \* scrape_cache.json
    section,      \* per worker: the part of _scrape_single_player it is in
    adding,       \* the add_player call under way: None, or its arguments and progress
    finding,      \* the find_player_id call under way: None, or its query and scan
    lastFind,     \* the find_player_id call that ended last
    priority_players, \* run_full_refresh: the priority set, in the order it is iterated
    all_players,  \* run_full_refresh: the static list of load_player_list
    site_page,    \* the rows of table.result on the page the site serves
    fetched,      \* None, or what fetch_player_matches built from site_page
    run_started,  \* datetime.now() when the running process was started, in ticks
    stopped,      \* None, or the queue positions not yet started when SIGINT arrived
    components    \* None, or the dict _extract_components returned for lastQuery

idxVars == <<idx, adds, lastQuery, lastResult>>
buildVars == <<seed, today, cutoff_date, player_slugs, playersDb, matchesDb, scraped, runs,
               built, assigned>>
cacheVars == <<scrape_cache, now, markedAt, lastCheck>>
requestVars == <<attempt, max_retries, responses, waits, returned>>
pageVars == <<site_page, fetched>>
storeVars == <<db_lock, saving, saves>>
runVars == <<player_queue, max_workers, task, phase, collected, completed, players_found,
             players_skipped, players_not_found, total_matches, cache_file, priority_players,
             all_players>>
sharedVars == <<section, adding, finding, lastFind>>
restVars == <<cacheVars, requestVars, pageVars, run_started, stopped, components, storeVars, runVars, sharedVars>>
vars == <<idxVars, buildVars, restVars>>

(***************************************************************************)
(* Names and ids the index is exercised with                               *)
(***************************************************************************)
MaxAdds == 2

AnaRod == <<"A", "n", "a", " ", "R", "o", "d">>
AlRod == <<"A", "l", " ", "R", "o", "d">>
NaLi == <<"N", "a", " ", "L", "i">>
BoGrubor == <<"B", "o", " ", "G", "r", "u", "b", "o", "r">>

CanonicalNames == {AnaRod, AlRod, NaLi, BoGrubor}
PlayerIds == {1, 2, -1}

\* a canonical 'First Last' name written 'Last First' and 'Last F.'
LastFirst(name) == LET p == Split(name) IN p[2] \o <<" ">> \o p[1]
LastInitialDot(name) == LET p == Split(name) IN p[2] \o <<" ">> \o <<p[1][1], ".">>

Queries ==
    CanonicalNames \cup {LastFirst(n) : n \in CanonicalNames}
                   \cup {LastInitialDot(n) : n \in CanonicalNames}

(***************************************************************************)
(* The site: three ATP players and two matches, as their pages show them   *)
(***************************************************************************)
\* player_slugs as build_slug_lookup leaves it: keys are lower-cased 'first last'
RankingSlugs ==
    << <<_normalize_name(AnaRod), [slug |-> SlugAna, tour |-> "ATP"]>>,
       <<_normalize_name(AlRod), [slug |-> SlugAl, tour |-> "ATP"]>>,
       <<_normalize_name(BoGrubor), [slug |-> SlugBo, tour |-> "ATP"]>> >>

Subjects == {AnaRod, AlRod, BoGrubor}

Header(y, t) == [kind |-> "header", linked |-> TRUE, year |-> Some(y), tournament |-> Some(t)]

\* a match row 'Winner-Loser'; src names the real match the row shows
MatchRow(src, day, month, winner, loser, link, score) ==
    [kind |-> "match", src |-> src, date |-> Some(<<day, month>>),
     text |-> Some(winner \o <<"-">> \o loser), link |-> link, score |-> score,
     round |-> "F"]

\* M1: Ana Rod d. Bo Grubor, Doha, 3 January 2025
\* M2: Bo Grubor d. Al Rod, Rome, 31 December 2024 (Al Rod not linked on Bo's page)
Page(subject) ==
    CASE subject = AnaRod ->
            << Header(2025, "Doha"),
               MatchRow("M1", 3, 1, DisplayRodA, DisplayGruborB, Some(SlugBo), "6-4") >>
      [] subject = BoGrubor ->
            << Header(2025, "Doha"),
               MatchRow("M1", 3, 1, DisplayRodA, DisplayGruborB, Some(SlugAna), "6-4"),
               Header(2024, "Rome"),
               MatchRow("M2", 31, 12, DisplayGruborB, DisplayRodA, None, "7-5") >>
      [] OTHER ->
            << Header(2024, "Rome"),
               MatchRow("M2", 31, 12, DisplayGruborB, DisplayRodA, Some(SlugBo), "7-5") >>

Todays == {<<2025, 1, 5>>, <<2025, 1, 20>>}

MaxRuns == 2

\* run_full_refresh(max_workers=3)
MaxWorkers == 3

(***************************************************************************)
(* The identity index on its own: any sequence of add_player and           *)
(* find_player_id calls                                                    *)
(***************************************************************************)
BuildIdle ==
    /\ seed = 1
    /\ today = <<2025, 1, 5>>
    /\ cutoff_date = None
    /\ player_slugs = <<>>
    /\ playersDb = <<>>
    /\ matchesDb = <<>>
    /\ scraped = {}
    /\ runs = 0
    /\ built = {}
    /\ assigned = {}

CacheIdle ==
    /\ scrape_cache = EmptyDict
    /\ now = 0
    /\ markedAt = EmptyDict
    /\ lastCheck = None

PageIdle ==
    /\ site_page = <<>>
    /\ fetched = None
    /\ run_started = 0
    /\ stopped = None
    /\ components = None

RequestIdle ==
    /\ attempt = 0
    /\ max_retries = DefaultMaxRetries
    /\ responses = <<>>
    /\ waits = <<>>
    /\ returned = None

StoreIdle ==
    /\ db_lock = None
    /\ saving = <<>>
    /\ saves = 0

RunIdle ==
    /\ priority_players = <<>>
    /\ all_players = <<>>
    /\ player_queue = <<>>
    /\ max_workers = MaxWorkers
    /\ task = <<>>
    /\ phase = "idle"
    /\ collected = <<>>
    /\ completed = 0
    /\ players_found = 0
    /\ players_skipped = 0
    /\ players_not_found = <<>>
    /\ total_matches = 0
    /\ cache_file = EmptyDict

SharedIdle ==
    /\ section = <<>>
    /\ adding = None
    /\ finding = None
    /\ lastFind = None

IndexIdle ==
    /\ adds = 0
    /\ lastQuery = None
    /\ lastResult = None

IndexInit ==
    /\ idx = EmptyIndex
    /\ IndexIdle
    /\ BuildIdle
    /\ CacheIdle /\ RequestIdle /\ PageIdle /\ StoreIdle /\ RunIdle /\ SharedIdle

AddPlayer(pid, name) ==
    /\ adds < MaxAdds
    /\ idx' = add_player(idx, pid, name)
    /\ adds' = adds + 1
    /\ UNCHANGED <<lastQuery, lastResult, buildVars, restVars>>

FindPlayer(q) ==
    /\ lastQuery' = Some(q)
    /\ lastResult' = find_player_id(idx, q)
    /\ UNCHANGED <<idx, adds, buildVars, restVars>>

IndexNext ==
    \/ \E pid \in PlayerIds, name \in CanonicalNames : AddPlayer(pid, name)
    \/ \E q \in Queries : FindPlayer(q)

SpecIndex == IndexInit /\ [][IndexNext]_vars

(***************************************************************************)
(* Scraping, one subject after the other, over several runs (processes):   *)
(* each run has its own hash salt and loads the matcher from the table     *)
(***************************************************************************)
BuildInit ==
    /\ idx = EmptyIndex
    /\ IndexIdle
    /\ seed \in Seeds
    /\ today \in Todays
    /\ cutoff_date = Some(DateMinusDays(today, 365))
    /\ player_slugs = RankingSlugs
    /\ playersDb = <<>>
    /\ matchesDb = <<>>
    /\ scraped = {}
    /\ runs = 1
    /\ built = {}
    /\ assigned = {}
    /\ CacheIdle /\ RequestIdle /\ PageIdle /\ StoreIdle /\ RunIdle /\ SharedIdle

\* save_player, fetch_player_matches, save_matches; b is what the page's rows built
ScrapePage(player_name, data, player_id, index, b) ==
    /\ playersDb' = InsertSorted(playersDb,
                       [id |-> player_id, name |-> player_name, tour |-> data.tour,
                        slug |-> data.slug])
    /\ idx' = index
    /\ matchesDb' = save_matches(matchesDb, Records(b))
    /\ built' = built \cup
          {[run |-> runs, seed |-> seed, page |-> player_name, row |-> b[k][1],
            src |-> Page(player_name)[b[k][1]].src, id |-> b[k][2].id] : k \in 1..Len(b)}
    /\ assigned' = assigned \cup {<<data.slug, data.tour, player_id>>}

ScrapeIndexed(player_name, data, player_id, index) ==
    ScrapePage(player_name, data, player_id, index,
               BuiltRows(index, seed, data.slug, player_name, data.tour,
                         Some(Page(player_name)), today, cutoff_date))

ScrapeFound(player_name, found) ==
    /\ found[1] # None
    /\ player_slugs' = found[2]
    /\ ScrapeIndexed(player_name, found[1][1],
                     HashId(seed, found[1][1].slug, found[1][1].tour),
                     add_player(idx, HashId(seed, found[1][1].slug, found[1][1].tour),
                                player_name))

\* _scrape_single_player for a priority subject whose page is fetched
ScrapeSubject(player_name) ==
    /\ player_name \notin scraped
    /\ ScrapeFound(player_name, find_player_slug(player_slugs, player_name, None))
    /\ scraped' = scraped \cup {player_name}
    /\ scrape_cache' = _mark_player_scraped(scrape_cache, now, player_name)
    /\ markedAt' = DictPut(markedAt, Lower(player_name), now)
    /\ UNCHANGED <<adds, lastQuery, lastResult, seed, today, cutoff_date, runs, now, lastCheck,
                   requestVars, pageVars, run_started, stopped, components, storeVars, runVars, sharedVars>>

\* the next run of the script: a new process
NewRun(sd, t) ==
    /\ runs < MaxRuns
    /\ ~DateAfter(today, t)
    /\ runs' = runs + 1
    /\ seed' = sd
    /\ today' = t
    /\ cutoff_date' = Some(DateMinusDays(t, 365))
    /\ idx' = LoadPlayers(EmptyIndex, playersDb)
    /\ scraped' = {}
    /\ UNCHANGED <<adds, lastQuery, lastResult, player_slugs, playersDb, matchesDb, built,
                   assigned, restVars>>

BuildNext ==
    \/ \E s \in Subjects : ScrapeSubject(s)
    \/ \E sd \in Seeds, t \in Todays : NewRun(sd, t)

SpecBuild == BuildInit /\ [][BuildNext]_vars

(***************************************************************************)
(* The scrape cache on its own: time passes, subjects get marked, and      *)
(* _should_scrape_player is asked                                          *)
(***************************************************************************)
MaxNow == 16

CacheNames == {AnaRod, Lower(AnaRod), BoGrubor}

CacheInit ==
    /\ idx = EmptyIndex
    /\ IndexIdle
    /\ BuildIdle
    /\ CacheIdle /\ RequestIdle /\ PageIdle /\ StoreIdle /\ RunIdle /\ SharedIdle

cacheRest == <<idxVars, buildVars, requestVars, pageVars, run_started, stopped, components, storeVars, runVars, sharedVars>>

Tick ==
    /\ now < MaxNow
    /\ now' = now + 1
    /\ lastCheck' = None
    /\ UNCHANGED <<scrape_cache, markedAt, cacheRest>>

MarkPlayerScraped(name) ==
    /\ scrape_cache' = _mark_player_scraped(scrape_cache, now, name)
    /\ markedAt' = DictPut(markedAt, Lower(name), now)
    /\ lastCheck' = None
    /\ UNCHANGED <<now, cacheRest>>

ShouldScrapePlayer(name, is_priority) ==
    /\ lastCheck' = Some([name |-> name, is_priority |-> is_priority,
                          result |-> _should_scrape_player(scrape_cache, now, name,
                                                           is_priority)])
    /\ UNCHANGED <<scrape_cache, now, markedAt, cacheRest>>

CacheNext ==
    \/ Tick
    \/ \E name \in CacheNames : MarkPlayerScraped(name)
    \/ \E name \in CacheNames, is_priority \in BOOLEAN : ShouldScrapePlayer(name, is_priority)

SpecCache == CacheInit /\ [][CacheNext]_vars

(***************************************************************************)
(* One _request call against a remote that answers anything               *)
(***************************************************************************)
RequestInit ==
    /\ idx = EmptyIndex
    /\ IndexIdle
    /\ BuildIdle
    /\ CacheIdle /\ StoreIdle /\ RunIdle /\ SharedIdle /\ PageIdle
    /\ attempt = 0
    /\ max_retries \in 1..DefaultMaxRetries
    /\ responses = <<>>
    /\ waits = <<>>
    /\ returned = None

\* one pass of "for attempt in range(max_retries)", up to the return or the next pass
RequestPass(outcome, after) ==
    /\ responses' = Append(responses, outcome)
    /\ waits' = IF after.wait = None THEN waits ELSE Append(waits, after.wait[1])
    /\ returned' = after.ret
    /\ attempt' = IF after.ret = None THEN attempt + 1 ELSE attempt

Attempt(outcome) ==
    /\ returned = None
    /\ attempt < max_retries
    /\ RequestPass(outcome, AfterAttempt(attempt, max_retries, outcome))
    /\ UNCHANGED <<max_retries, idxVars, buildVars, cacheVars, storeVars, runVars, sharedVars,
                   pageVars, run_started, stopped, components>>

RequestNext == \E outcome \in Outcomes : Attempt(outcome)

SpecRequest == RequestInit /\ [][RequestNext]_vars

(***************************************************************************)
(* save_matches called by concurrent workers: each call takes db_lock,     *)
(* inserts its matches one by one, commits and releases the lock           *)
(***************************************************************************)
MaxSaves == 3

Workers == 1..MaxWorkers

\* the index once the three subjects are players
SubjectIndex ==
    add_player(add_player(add_player(EmptyIndex, HashId(1, SlugAna, "ATP"), AnaRod),
                          HashId(1, SlugAl, "ATP"), AlRod),
               HashId(1, SlugBo, "ATP"), BoGrubor)

\* what fetch_player_matches gives for the subject's page then, in this run
SubjectMatches(subject, data) ==
    fetch_player_matches(SubjectIndex, seed, data.slug, subject, data.tour,
                         Some(Page(subject)), today, cutoff_date)

Batches ==
    {<<>>} \cup {SubjectMatches(s, SlugGet(RankingSlugs, _normalize_name(s))[1]) : s \in Subjects}

StoreInit ==
    /\ idx = EmptyIndex
    /\ IndexIdle
    /\ BuildIdle
    /\ CacheIdle /\ RequestIdle /\ PageIdle /\ RunIdle /\ SharedIdle
    /\ db_lock = None
    /\ saving = [w \in Workers |-> None]
    /\ saves = 0

storeRest == <<idxVars, seed, today, cutoff_date, player_slugs, playersDb, scraped, runs, built,
               assigned, cacheVars, requestVars, pageVars, run_started, stopped, components, runVars, sharedVars>>

\* save_matches(matches): returns at once when the list is empty, else waits for the lock
SaveCall(w, matches) ==
    /\ saving[w] = None
    /\ saves < MaxSaves
    /\ saves' = saves + 1
    /\ saving' = IF matches = <<>> THEN saving
                 ELSE [saving EXCEPT ![w] = Some([matches |-> matches, pos |-> 0])]
    /\ UNCHANGED <<db_lock, matchesDb, storeRest>>

\* with self.db_lock:
Acquire(w) ==
    /\ saving[w] # None
    /\ saving[w][1].pos = 0
    /\ db_lock = None
    /\ db_lock' = Some(w)
    /\ saving' = [saving EXCEPT ![w] = Some([saving[w][1] EXCEPT !.pos = 1])]
    /\ UNCHANGED <<saves, matchesDb, storeRest>>

\* cursor.execute(INSERT OR IGNORE ...) for the next match of the list
InsertStep(w) ==
    /\ db_lock = Some(w)
    /\ saving[w][1].pos <= Len(saving[w][1].matches)
    /\ matchesDb' = InsertOrIgnoreRow(matchesDb, saving[w][1].matches[saving[w][1].pos])
    /\ saving' = [saving EXCEPT ![w] = Some([saving[w][1] EXCEPT !.pos = @ + 1])]
    /\ UNCHANGED <<db_lock, saves, storeRest>>

\* conn.commit(), conn.close(), and the lock is released
Commit(w) ==
    /\ db_lock = Some(w)
    /\ saving[w][1].pos > Len(saving[w][1].matches)
    /\ db_lock' = None
    /\ saving' = [saving EXCEPT ![w] = None]
    /\ UNCHANGED <<saves, matchesDb, storeRest>>

StoreNext ==
    \/ \E w \in Workers, matches \in Batches : SaveCall(w, matches)
    \/ \E w \in Workers : Acquire(w)
    \/ \E w \in Workers : InsertStep(w)
    \/ \E w \in Workers : Commit(w)

SpecStore == StoreInit /\ [][StoreNext]_vars

(***************************************************************************)
(* run_full_refresh: the tasks of the queue run on max_workers threads,    *)
(* the main thread takes the futures as they complete and then sums up     *)
(***************************************************************************)
RunNow == 16

AllPlayers == <<AnaRod, AlRod, BoGrubor>>

\* priority_players, in the order the set is iterated
PriorityChoices == {<<>>, <<Lower(AnaRod)>>}

\* scrape_cache.json as earlier runs left it: Al Rod not scraped, scraped a tick ago,
\* or scraped 8 days ago
MarkedChoices == {EmptyDict, DictPut(EmptyDict, Lower(AlRod), RunNow - 1), DictPut(EmptyDict, Lower(AlRod), 0)}

\* a timestamp of scrape_cache.json that is no isoformat string (a file cut short or
\* edited by hand)
BadTimestamp == <<"1", "5", "T">>

\* the file as json.load returns it: the entries as written, or Al Rod's one damaged
LoadedCaches(marked) ==
    {[k \in DOMAIN marked |-> isoformat(marked[k])]}
        \cup (IF marked = DictPut(EmptyDict, Lower(AlRod), RunNow - 1)
              THEN {[k \in DOMAIN marked |-> BadTimestamp]} ELSE {})

\* what the remote and the database let a task do between the cache check and the
\* end of fetch_player_matches
FetchOutcomes == {"no_slug", "db_error", "no_response", "no_matches", "matches"}

RunInit ==
    /\ idx = EmptyIndex
    /\ IndexIdle
    /\ BuildIdle
    /\ RequestIdle /\ PageIdle /\ StoreIdle /\ SharedIdle
    /\ now = RunNow
    /\ markedAt \in MarkedChoices
    /\ scrape_cache \in LoadedCaches(markedAt)
    /\ lastCheck = None
    /\ priority_players \in PriorityChoices
    /\ all_players = AllPlayers
    /\ player_queue = PlayerQueue(priority_players, all_players)
    /\ max_workers \in 1..MaxWorkers
    /\ task = [i \in 1..Len(player_queue) |-> NewTask(player_queue[i][1], player_queue[i][2])]
    /\ phase = "collect"
    /\ collected = <<>>
    /\ completed = 0
    /\ players_found = 0
    /\ players_skipped = 0
    /\ players_not_found = <<>>
    /\ total_matches = 0
    /\ cache_file = scrape_cache

Running == {i \in 1..Len(task) : task[i].pc \in {"running", "fetched"}}

runRest == <<idxVars, buildVars, requestVars, pageVars, run_started, stopped, components, storeVars, sharedVars, now, lastCheck,
             player_queue, max_workers, priority_players, all_players>>

mainVars == <<phase, collected, completed, players_found, players_skipped,
              players_not_found, total_matches, cache_file>>

\* a pool thread takes the next submitted task: _should_scrape_player
TaskStart(i) ==
    /\ phase = "collect"
    /\ task[i].pc = "queued"
    /\ \A j \in 1..(i - 1) : task[j].pc # "queued"
    /\ Cardinality(Running) < max_workers
    /\ task' = [task EXCEPT ![i] =
                  IF ShouldScrapeRaises(scrape_cache, task[i].name, task[i].is_priority)
                  THEN [@ EXCEPT !.pc = "done", !.raised = TRUE]
                  ELSE IF _should_scrape_player(scrape_cache, now, task[i].name,
                                                task[i].is_priority)
                  THEN [@ EXCEPT !.pc = "running"]
                  ELSE [@ EXCEPT !.pc = "done", !.skipped = TRUE]]
    /\ UNCHANGED <<scrape_cache, markedAt, mainVars, runRest>>

\* find_player_slug, save_player, fetch_player_matches
TaskFetch(i, out) ==
    /\ task[i].pc = "running"
    /\ task' = [task EXCEPT ![i] =
                  CASE out = "no_slug" -> [@ EXCEPT !.pc = "done"]
                    [] out = "db_error" -> [@ EXCEPT !.pc = "done", !.found = TRUE, !.raised = TRUE]
                    [] out = "no_response" -> [@ EXCEPT !.pc = "fetched", !.found = TRUE]
                    [] out = "no_matches" ->
                          [@ EXCEPT !.pc = "fetched", !.found = TRUE, !.response = TRUE]
                    [] OTHER ->
                          [@ EXCEPT !.pc = "fetched", !.found = TRUE, !.response = TRUE,
                                    !.fetched = 1]]
    /\ UNCHANGED <<scrape_cache, markedAt, mainVars, runRest>>

\* save_matches when there are matches, _mark_player_scraped, return result
TaskFinish(i, saved) ==
    /\ task[i].pc = "fetched"
    /\ IF task[i].fetched > 0 /\ ~saved
       THEN /\ task' = [task EXCEPT ![i] = [@ EXCEPT !.pc = "done", !.raised = TRUE]]
            /\ UNCHANGED <<scrape_cache, markedAt>>
       ELSE /\ task' = [task EXCEPT ![i] =
                          [@ EXCEPT !.pc = "done", !.matches = task[i].fetched,
                                    !.marked = TRUE]]
            /\ scrape_cache' = _mark_player_scraped(scrape_cache, now, task[i].name)
            /\ markedAt' = DictPut(markedAt, Lower(task[i].name), now)
    /\ UNCHANGED <<mainVars, runRest>>

\* one pass of "for future in as_completed(futures)"
MainCollect(i) ==
    /\ phase = "collect"
    /\ task[i].pc = "done"
    /\ \A k \in 1..Len(collected) : collected[k] # i
    /\ collected' = Append(collected, i)
    /\ completed' = completed + 1
    /\ phase' = IF task[i].raised /\ ~Caught(task[i]) THEN "aborted" ELSE phase
    /\ players_skipped' = IF ~task[i].raised /\ task[i].skipped THEN players_skipped + 1
                          ELSE players_skipped
    /\ players_found' = IF ~task[i].raised /\ ~task[i].skipped /\ task[i].found
                        THEN players_found + 1 ELSE players_found
    /\ total_matches' = IF ~task[i].raised /\ ~task[i].skipped /\ task[i].found
                        THEN total_matches + task[i].matches ELSE total_matches
    /\ players_not_found' = NotFoundAfter(players_not_found, task[i])
    /\ UNCHANGED <<task, scrape_cache, markedAt, cache_file, runRest>>

\* the loop and the pool are done: _save_scrape_cache and the summary
MainSummary ==
    /\ phase = "collect"
    /\ Len(collected) = Len(task)
    /\ phase' = "summary"
    /\ cache_file' = scrape_cache
    /\ UNCHANGED <<task, scrape_cache, markedAt, collected, completed, players_found,
                   players_skipped, players_not_found, total_matches, runRest>>

RunNext ==
    \/ \E i \in 1..Len(task) : TaskStart(i)
    \/ \E i \in 1..Len(task), out \in FetchOutcomes : TaskFetch(i, out)
    \/ \E i \in 1..Len(task), saved \in BOOLEAN : TaskFinish(i, saved)
    \/ \E i \in 1..Len(task) : MainCollect(i)
    \/ MainSummary

SpecRun == RunInit /\ [][RunNext]_vars

\* every fetch returns and the threads keep running: no step that can be taken is
\* put off for ever
SpecRunFair == SpecRun /\ WF_vars(RunNext)

(***************************************************************************)
(* The writes of concurrent tasks: each worker runs _scrape_single_player  *)
(* for one subject, and section tells which part of it the worker is in    *)
(***************************************************************************)
WorkerSubject == <<AnaRod, AlRod, BoGrubor>>

WorkerData(w) == SlugGet(RankingSlugs, _normalize_name(WorkerSubject[w]))[1]

WorkerId(w) == HashId(seed, WorkerData(w).slug, WorkerData(w).tour)

WorkersInit ==
    /\ idx = EmptyIndex
    /\ IndexIdle
    /\ BuildIdle
    /\ CacheIdle /\ RequestIdle /\ PageIdle /\ RunIdle
    /\ db_lock = None
    /\ saving = [w \in Workers |-> None]
    /\ saves = 0
    /\ section = [w \in Workers |-> "start"]
    /\ adding = None
    /\ finding = None
    /\ lastFind = None

workersRest == <<adds, lastQuery, lastResult, seed, today, cutoff_date, player_slugs, scraped,
                 runs, built, assigned, now, lastCheck, requestVars, pageVars, run_started, stopped, components, saves, runVars, adding,
                 finding, lastFind>>

\* save_player: with self.db_lock
EnterSavePlayer(w) ==
    /\ section[w] = "start"
    /\ db_lock = None
    /\ db_lock' = Some(w)
    /\ section' = [section EXCEPT ![w] = "save_player"]
    /\ UNCHANGED <<idx, playersDb, matchesDb, saving, scrape_cache, markedAt, workersRest>>

\* save_player: INSERT OR REPLACE, commit, add_player, and the lock is released
LeaveSavePlayer(w) ==
    /\ section[w] = "save_player"
    /\ playersDb' = InsertSorted(playersDb,
                       [id |-> WorkerId(w), name |-> WorkerSubject[w],
                        tour |-> WorkerData(w).tour, slug |-> WorkerData(w).slug])
    /\ idx' = add_player(idx, WorkerId(w), WorkerSubject[w])
    /\ db_lock' = None
    /\ section' = [section EXCEPT ![w] = "fetch"]
    /\ UNCHANGED <<matchesDb, saving, scrape_cache, markedAt, workersRest>>

\* fetch_player_matches, and save_matches up to its wait for the lock
FetchMatches(w, matches) ==
    /\ section[w] = "fetch"
    /\ saving' = IF matches = <<>> THEN saving
                 ELSE [saving EXCEPT ![w] = Some([matches |-> matches, pos |-> 0])]
    /\ section' = [section EXCEPT ![w] = IF matches = <<>> THEN "call_mark" ELSE "wait_lock"]
    /\ UNCHANGED <<idx, playersDb, matchesDb, db_lock, scrape_cache, markedAt, workersRest>>

\* what the worker's page answers: no response, or the page of its subject
FetchPage(w, page) ==
    FetchMatches(w, fetch_player_matches(idx, seed, WorkerData(w).slug, WorkerSubject[w],
                                         WorkerData(w).tour, page, today, cutoff_date))

\* save_matches: with self.db_lock
EnterSaveMatches(w) ==
    /\ section[w] = "wait_lock"
    /\ db_lock = None
    /\ db_lock' = Some(w)
    /\ section' = [section EXCEPT ![w] = "save_matches"]
    /\ UNCHANGED <<idx, playersDb, matchesDb, saving, scrape_cache, markedAt, workersRest>>

\* save_matches: the inserts, commit, and the lock is released
LeaveSaveMatches(w) ==
    /\ section[w] = "save_matches"
    /\ matchesDb' = save_matches(matchesDb, saving[w][1].matches)
    /\ saving' = [saving EXCEPT ![w] = None]
    /\ db_lock' = None
    /\ section' = [section EXCEPT ![w] = "call_mark"]
    /\ UNCHANGED <<idx, playersDb, scrape_cache, markedAt, workersRest>>

\* _mark_player_scraped is entered: the key and the timestamp are computed
EnterMark(w) ==
    /\ section[w] = "call_mark"
    /\ section' = [section EXCEPT ![w] = "mark"]
    /\ UNCHANGED <<idx, playersDb, matchesDb, db_lock, saving, scrape_cache, markedAt,
                   workersRest>>

\* _mark_player_scraped: self.scrape_cache[key] = timestamp
StoreMark(w) ==
    /\ section[w] = "mark"
    /\ scrape_cache' = _mark_player_scraped(scrape_cache, now, WorkerSubject[w])
    /\ markedAt' = DictPut(markedAt, Lower(WorkerSubject[w]), now)
    /\ section' = [section EXCEPT ![w] = "done"]
    /\ UNCHANGED <<idx, playersDb, matchesDb, db_lock, saving, workersRest>>

WorkersNext ==
    \/ \E w \in Workers : EnterSavePlayer(w)
    \/ \E w \in Workers : LeaveSavePlayer(w)
    \/ \E w \in Workers : FetchPage(w, None)
    \/ \E w \in Workers : FetchPage(w, Some(Page(WorkerSubject[w])))
    \/ \E w \in Workers : EnterSaveMatches(w)
    \/ \E w \in Workers : LeaveSaveMatches(w)
    \/ \E w \in Workers : EnterMark(w)
    \/ \E w \in Workers : StoreMark(w)

SpecWorkers == WorkersInit /\ [][WorkersNext]_vars

\* the shared resource a worker in section s is writing, if any
Writes(s) ==
    CASE s = "save_player" -> {"players", "index"}
      [] s = "save_matches" -> {"matches"}
      [] s = "mark" -> {"cache"}
      [] OTHER -> {}

(***************************************************************************)
(* find_player_id of one worker while another worker is in add_player:     *)
(* save_player holds db_lock around add_player, fetch_player_matches calls *)
(* find_player_id without it, and threads switch between the statements    *)
(***************************************************************************)
\* the statements of add_player done so far: players, by_full_name, by_name_parts,
\* then by_last_name and by_last_initial
AddedUpTo(before, after, step) ==
    [players |-> IF step >= 1 THEN after.players ELSE before.players,
     by_full_name |-> IF step >= 2 THEN after.by_full_name ELSE before.by_full_name,
     by_name_parts |-> IF step >= 3 THEN after.by_name_parts ELSE before.by_name_parts,
     by_last_name |-> IF step >= 4 THEN after.by_last_name ELSE before.by_last_name,
     by_last_initial |-> IF step >= 4 THEN after.by_last_initial ELSE before.by_last_initial]

AddSteps == 4

SignificantParts(name) ==
    SortByLenDesc(SelectSeq(_extract_components(name).all_parts, LAMBDA p : Len(p) > 1), 1, <<>>)

\* find_player_id up to strategy 3
BeforeScan(index, name, significant_parts, initial) ==
    LET normalized == _normalize(name)
        no_spaces == RemoveChar(normalized, " ")
        s2 == Strategy2(index, significant_parts, 1, initial)
    IN  IF HasKey(index.by_full_name, normalized) THEN Some(index.by_full_name[normalized])
        ELSE IF HasKey(index.by_full_name, no_spaces) THEN Some(index.by_full_name[no_spaces])
        ELSE IF s2 # None THEN s2
        ELSE Strategy3(index, _extract_components(name), initial)

\* strategy 4 reaches "for pid, full_name in self.players.items()"
ScansPlayers(significant_parts) ==
    Len(significant_parts) >= 2 /\ Len(SelectSeq(significant_parts, LAMBDA p : Len(p) >= 3)) >= 2

\* find_player_id from strategy 4 on
FromScan(index, significant_parts, initial) ==
    LET s4 == Strategy4(index, significant_parts)
    IN  IF s4 # None THEN s4 ELSE Strategy5(index, significant_parts, initial)

SharedNames == {AnaRod, BoGrubor}
SharedIds == {1, 2}
SharedQueries == {AnaRod, LastFirst(AnaRod), LastInitialDot(AnaRod), LastFirst(BoGrubor)}

SharedInit ==
    /\ idx \in {EmptyIndex} \cup {add_player(EmptyIndex, 2, n) : n \in SharedNames}
    /\ IndexIdle
    /\ BuildIdle
    /\ CacheIdle /\ RequestIdle /\ PageIdle /\ StoreIdle /\ RunIdle
    /\ section = <<>>
    /\ adding = None
    /\ finding = None
    /\ lastFind = None

sharedRest == <<lastQuery, lastResult, buildVars, cacheVars, requestVars, pageVars, run_started, stopped, components, saving, saves, runVars,
                section>>

\* save_player: the lock is taken and add_player is called
AddBegin(pid, name) ==
    /\ adds < MaxAdds
    /\ db_lock = None
    /\ db_lock' = Some(1)
    /\ adding' = Some([pid |-> pid, name |-> name, before |-> idx, step |-> 0])
    /\ finding' = IF finding = None THEN None
                  ELSE Some([finding[1] EXCEPT !.allowed =
                                 @ \cup {find_player_id(add_player(idx, pid, name), finding[1].query)}])
    /\ UNCHANGED <<idx, adds, lastFind, sharedRest>>

\* one more statement of add_player; after the last one the lock is released
AddStatement(a, after) ==
    /\ idx' = AddedUpTo(a.before, after, a.step + 1)
    /\ adding' = IF a.step + 1 = AddSteps THEN None ELSE Some([a EXCEPT !.step = @ + 1])
    /\ db_lock' = IF a.step + 1 = AddSteps THEN None ELSE db_lock
    /\ adds' = IF a.step + 1 = AddSteps THEN adds + 1 ELSE adds
    /\ UNCHANGED <<finding, lastFind, sharedRest>>

AddStep ==
    /\ adding # None
    /\ AddStatement(adding[1], add_player(adding[1].before, adding[1].pid, adding[1].name))

\* what the call may return if it sees every add_player whole: its answer on the index
\* before the add under way, or after it
Allowed(q) ==
    IF adding = None THEN {find_player_id(idx, q)}
    ELSE {find_player_id(adding[1].before, q),
          find_player_id(add_player(adding[1].before, adding[1].pid, adding[1].name), q)}

\* find_player_id up to the first iteration of the scan of players
FindStart(q, allowed, significant_parts, early) ==
    /\ finding = None
    /\ IF early # None \/ ~ScansPlayers(significant_parts)
       THEN /\ lastFind' = Some([query |-> q, raised |-> FALSE, allowed |-> allowed,
                                 got |-> IF early # None THEN early
                                         ELSE FromScan(idx, significant_parts,
                                                       QueryInitial(_extract_components(q).all_parts,
                                                                    significant_parts))])
            /\ UNCHANGED finding
       ELSE /\ finding' = Some([query |-> q, allowed |-> allowed, size |-> Len(idx.players)])
            /\ UNCHANGED lastFind
    /\ UNCHANGED <<idx, adds, db_lock, adding, sharedRest>>

FindBegin(q) ==
    FindStart(q, Allowed(q), SignificantParts(q),
              BeforeScan(idx, q, SignificantParts(q),
                         QueryInitial(_extract_components(q).all_parts, SignificantParts(q))))

\* the scan of players and the rest of find_player_id: the dict iterator raises
\* RuntimeError when players has another size than at the start of the scan
FindScan ==
    /\ finding # None
    /\ lastFind' =
          Some([query |-> finding[1].query, allowed |-> finding[1].allowed,
                raised |-> Len(idx.players) # finding[1].size,
                got |-> IF Len(idx.players) # finding[1].size THEN None
                        ELSE FromScan(idx, SignificantParts(finding[1].query),
                                      QueryInitial(_extract_components(finding[1].query).all_parts,
                                                   SignificantParts(finding[1].query)))])
    /\ finding' = None
    /\ UNCHANGED <<idx, adds, db_lock, adding, sharedRest>>

SharedNext ==
    \/ \E pid \in SharedIds, name \in SharedNames : AddBegin(pid, name)
    \/ AddStep
    \/ \E q \in SharedQueries : FindBegin(q)
    \/ FindScan

SpecShared == SharedInit /\ [][SharedNext]_vars

(***************************************************************************)
(* Subjects the ranking pages do not list: _guess_and_verify_slug, and the *)
(* slug lookup of the next run                                             *)
(***************************************************************************)
AnaGrubor == <<"A", "n", "a", " ", "G", "r", "u", "b", "o", "r">>
AGrubor == <<"A", ".", " ", "G", "r", "u", "b", "o", "r">>
SlugAnaGrubor == <<"g", "r", "u", "b", "o", "r", "-", "a", "n", "a">>

SlugChars == {"a", "b", "g", "l", "n", "o", "r", "u", "d", "i", "0", "1", "2", "3", "4", "5", "6", "7", "8", "9"}

\* re.sub(r'-+', '-', s)
RECURSIVE CollapseDashes(_)
CollapseDashes(s) ==
    IF Len(s) < 2 THEN s
    ELSE IF s[1] = "-" /\ s[2] = "-" THEN CollapseDashes(Tail(s))
    ELSE <<s[1]>> \o CollapseDashes(Tail(s))

\* str.strip('-')
RECURSIVE StripDashes(_)
StripDashes(s) ==
    IF s # <<>> /\ s[1] = "-" THEN StripDashes(Tail(s))
    ELSE IF s # <<>> /\ s[Len(s)] = "-" THEN StripDashes(SubSeq(s, 1, Len(s) - 1))
    ELSE s

\* slugify of _guess_and_verify_slug
Slugify(s) ==
    LET n == _normalize_name(s)
    IN  StripDashes(CollapseDashes([i \in 1..Len(n) |-> IF n[i] \in SlugChars THEN n[i] ELSE "-"]))

\* slug_patterns, for names of one or two parts
SlugPatterns(player_name) ==
    LET parts == Split(player_name)
        first_name == Slugify(parts[1])
        last_name == Slugify(parts[Len(parts)])
    IN  IF Len(parts) >= 2
        THEN <<last_name \o <<"-">> \o first_name, last_name, first_name \o <<"-">> \o last_name>>
        ELSE <<last_name>>

\* the /player/<slug>/ pages of the site
SiteSlugs == {SlugAna, SlugAl, SlugBo, SlugAnaGrubor}

\* what _guess_and_verify_slug can return: None, or a pattern whose page answered, with
\* the tour read from the page text ('wta' in the first 5000 characters, or not)
GuessOutcomes(player_name) ==
    {None} \cup {Some([slug |-> SlugPatterns(player_name)[k], tour |-> t]) :
                    k \in {j \in 1..Len(SlugPatterns(player_name)) :
                              SlugPatterns(player_name)[j] \in SiteSlugs},
                    t \in {"ATP", "WTA"}}

Guesses == GuessOutcomes(AnaGrubor) \cup GuessOutcomes(AGrubor)

\* the rows of the page at a slug
PageAt(slug) ==
    Page(CASE slug = SlugAna -> AnaRod [] slug = SlugBo -> BoGrubor [] OTHER -> AlRod)

\* dict.update: a key already there keeps its place and takes the new value
RECURSIVE SlugsUpdate(_, _)
SlugsUpdate(slugs, more) ==
    IF more = <<>> THEN slugs
    ELSE SlugsUpdate(IF \E i \in 1..Len(slugs) : slugs[i][1] = more[1][1]
                     THEN [i \in 1..Len(slugs) |->
                              IF slugs[i][1] = more[1][1] THEN more[1] ELSE slugs[i]]
                     ELSE Append(slugs, more[1]),
                     Tail(more))

\* what the two ranking pages list in a run: Ana Grubor is in the ATP list or in none
RankingChoices ==
    {RankingSlugs,
     Append(RankingSlugs, <<_normalize_name(AnaGrubor), [slug |-> SlugAnaGrubor, tour |-> "ATP"]>>)}

\* build_slug_lookup: the slug cache file, then the ATP and WTA ranking pages
build_slug_lookup(slug_cache, rankings) == SlugsUpdate(slug_cache, rankings)

SlugSeeds == {1, 2}

SlugsInit ==
    /\ idx = EmptyIndex
    /\ IndexIdle
    /\ seed \in SlugSeeds
    /\ today = <<2025, 1, 5>>
    /\ cutoff_date = Some(DateMinusDays(today, 365))
    /\ \E rankings \in RankingChoices : player_slugs = build_slug_lookup(<<>>, rankings)
    /\ playersDb = <<>>
    /\ matchesDb = <<>>
    /\ scraped = {}
    /\ runs = 1
    /\ built = {}
    /\ assigned = {}
    /\ CacheIdle /\ RequestIdle /\ PageIdle /\ StoreIdle /\ SharedIdle
    /\ priority_players = <<AnaGrubor>>
    /\ all_players = <<AGrubor>>
    /\ player_queue = PlayerQueue(priority_players, all_players)
    /\ max_workers = 1
    /\ task = [i \in 1..Len(player_queue) |-> NewTask(player_queue[i][1], player_queue[i][2])]
    /\ phase = "collect"
    /\ collected = <<>>
    /\ completed = 0
    /\ players_found = 0
    /\ players_skipped = 0
    /\ players_not_found = <<>>
    /\ total_matches = 0
    /\ cache_file = EmptyDict

slugsRest == <<adds, lastQuery, lastResult, today, cutoff_date, scraped, built, lastCheck,
               requestVars, pageVars, run_started, stopped, components, storeVars, sharedVars, player_queue, max_workers, phase, collected,
               completed, players_found, players_skipped, players_not_found, total_matches,
               cache_file, priority_players, all_players>>

\* _scrape_single_player from save_player on
SlugSave(i, data, player_id, matches) ==
    /\ playersDb' = InsertSorted(playersDb,
                       [id |-> player_id, name |-> task[i].name, tour |-> data.tour,
                        slug |-> data.slug])
    /\ idx' = add_player(idx, player_id, task[i].name)
    /\ matchesDb' = save_matches(matchesDb, matches)
    /\ assigned' = assigned \cup {<<data.slug, data.tour, player_id>>}
    /\ scrape_cache' = _mark_player_scraped(scrape_cache, now, task[i].name)
    /\ markedAt' = DictPut(markedAt, Lower(task[i].name), now)
    /\ task' = [task EXCEPT ![i] = [@ EXCEPT !.pc = "done", !.found = TRUE, !.response = TRUE,
                                              !.fetched = Len(matches),
                                              !.matches = Len(matches), !.marked = TRUE]]

SlugFetch(i, data, index) ==
    SlugSave(i, data, HashId(seed, data.slug, data.tour),
             fetch_player_matches(index, seed, data.slug, task[i].name, data.tour,
                                  Some(PageAt(data.slug)), today, cutoff_date))

\* _scrape_single_player after the cache check; found is what find_player_slug returned
SlugFound(i, found) ==
    /\ player_slugs' = found[2]
    /\ IF found[1] = None
       THEN /\ task' = [task EXCEPT ![i] = [@ EXCEPT !.pc = "done"]]
            /\ UNCHANGED <<idx, playersDb, matchesDb, assigned, scrape_cache, markedAt>>
       ELSE SlugFetch(i, found[1][1],
                      add_player(idx, HashId(seed, found[1][1].slug, found[1][1].tour),
                                 task[i].name))

\* one task of the queue, from its start to its return
SlugTask(i, guessed) ==
    /\ task[i].pc = "queued"
    /\ guessed \in GuessOutcomes(task[i].name)
    /\ IF ~_should_scrape_player(scrape_cache, now, task[i].name, task[i].is_priority)
       THEN /\ task' = [task EXCEPT ![i] = [@ EXCEPT !.pc = "done", !.skipped = TRUE]]
            /\ UNCHANGED <<idx, player_slugs, playersDb, matchesDb, assigned, scrape_cache,
                           markedAt>>
       ELSE SlugFound(i, find_player_slug(player_slugs, task[i].name, guessed))
    /\ UNCHANGED <<seed, runs, now, slugsRest>>

\* the next run, a day later: the slug cache the last run saved and the ranking pages
\* of the day; the matcher is loaded from the players table
SlugsNextRun(sd, rankings) ==
    /\ runs < MaxRuns
    /\ \A i \in 1..Len(task) : task[i].pc = "done"
    /\ runs' = runs + 1
    /\ seed' = sd
    /\ now' = now + TicksPerDay
    /\ player_slugs' = build_slug_lookup(player_slugs, rankings)
    /\ idx' = LoadPlayers(EmptyIndex, playersDb)
    /\ task' = [i \in 1..Len(player_queue) |-> NewTask(player_queue[i][1], player_queue[i][2])]
    /\ UNCHANGED <<playersDb, matchesDb, assigned, scrape_cache, markedAt, slugsRest>>

SlugsNext ==
    \/ \E i \in 1..Len(task), guessed \in Guesses : SlugTask(i, guessed)
    \/ \E sd \in SlugSeeds, rankings \in RankingChoices : SlugsNextRun(sd, rankings)

SpecSlugs == SlugsInit /\ [][SlugsNext]_vars

(***************************************************************************)
(* run_full_refresh up to the queue: any priority set and any static list  *)
(***************************************************************************)
MaxPriority == 2
MaxListed == 2

QueueNames == {AnaRod, Lower(AnaRod), AlRod, BoGrubor}

SeqsUpTo(S, n) == UNION {[1..k -> S] : k \in 0..n}

\* a set of names in some iteration order: no name twice as written
PrioritySets == {q \in SeqsUpTo(QueueNames, MaxPriority) : \A j, k \in 1..Len(q) : j # k => q[j] # q[k]}

\* the lines of the player list file: any names, repeats included
PlayerLists == SeqsUpTo(QueueNames, MaxListed)

QueueInit ==
    /\ idx = EmptyIndex
    /\ IndexIdle
    /\ BuildIdle
    /\ CacheIdle /\ RequestIdle /\ PageIdle /\ StoreIdle /\ SharedIdle
    /\ priority_players \in PrioritySets
    /\ all_players \in PlayerLists
    /\ player_queue = <<>>
    /\ max_workers = MaxWorkers
    /\ task = <<>>
    /\ phase = "idle"
    /\ collected = <<>>
    /\ completed = 0
    /\ players_found = 0
    /\ players_skipped = 0
    /\ players_not_found = <<>>
    /\ total_matches = 0
    /\ cache_file = EmptyDict

\* "No players to scrape!": the function returns; else the queue and its futures
BuildQueue(queue) ==
    /\ phase = "idle"
    /\ IF all_players = <<>> /\ priority_players = <<>>
       THEN /\ phase' = "returned"
            /\ UNCHANGED <<player_queue, task>>
       ELSE /\ phase' = "collect"
            /\ player_queue' = queue
            /\ task' = [i \in 1..Len(queue) |-> NewTask(queue[i][1], queue[i][2])]
    /\ UNCHANGED <<idxVars, buildVars, cacheVars, requestVars, pageVars, run_started, stopped, components, storeVars, sharedVars,
                   max_workers, collected, completed, players_found, players_skipped,
                   players_not_found, total_matches, cache_file, priority_players, all_players>>

QueueNext == BuildQueue(PlayerQueue(priority_players, all_players))

SpecQueue == QueueInit /\ [][QueueNext]_vars

(***************************************************************************)
(* fetch_player_matches on any page: one tournament header with a year and *)
(* match rows with any day and month, read on any of several days          *)
(***************************************************************************)
MaxRows == 2

DateTodays == {<<2024, 1, 5>>, <<2025, 1, 5>>, <<2026, 1, 5>>, <<2024, 3, 2>>, <<2025, 3, 2>>}

\* the years a tournament header can show on a day: the href of a tournament of
\* next season carries next year
YearHints(t) == {t[1] - 2, t[1] - 1, t[1], t[1] + 1}

\* the day and month of a date cell: any text that matches ^(\d{1,2})\.(\d{1,2})\.$
DayMonths == {<<31, 12>>, <<31, 2>>, <<29, 2>>, <<28, 2>>, <<1, 3>>, <<3, 1>>, <<5, 1>>, <<8, 1>>}

DatedRow(dm) == MatchRow("M1", dm[1], dm[2], DisplayRodA, DisplayGruborB, Some(SlugBo), "6-4")

DatedPages(t) ==
    {<<Header(y, "Doha")>> \o [k \in 1..n |-> DatedRow(dms[k])] :
        y \in YearHints(t), n \in 1..MaxRows, dms \in [1..MaxRows -> DayMonths]}

DatesInit ==
    /\ idx = EmptyIndex
    /\ IndexIdle
    /\ seed = 1
    /\ today \in DateTodays
    /\ cutoff_date = Some(DateMinusDays(today, 365))
    /\ player_slugs = <<>>
    /\ playersDb = <<>>
    /\ matchesDb = <<>>
    /\ scraped = {}
    /\ runs = 0
    /\ built = {}
    /\ assigned = {}
    /\ CacheIdle /\ RequestIdle /\ StoreIdle /\ RunIdle /\ SharedIdle
    /\ site_page \in DatedPages(today)
    /\ fetched = None
    /\ run_started = 0
    /\ stopped = None
    /\ components = None

\* fetch_player_matches for the subject Ana Rod on the page served
FetchDated(b) ==
    /\ fetched = None
    /\ fetched' = Some(b)
    /\ UNCHANGED <<idxVars, buildVars, cacheVars, requestVars, storeVars, runVars, sharedVars,
                   site_page, run_started, stopped, components>>

DatesNext ==
    FetchDated(BuiltRows(idx, seed, SlugAna, AnaRod, "ATP", Some(site_page), today, cutoff_date))

SpecDates == DatesInit /\ [][DatesNext]_vars

\* the year of the tournament header above row k of the page
YearHintAt(k) == site_page[CHOOSE h \in 1..(k - 1) : site_page[h].kind = "header" /\ \A j \in (h + 1)..(k - 1) : site_page[j].kind # "header"].year[1]

\* the records built from row k
BuiltFrom(k) == {fetched[1][j][2] : j \in {i \in 1..Len(fetched[1]) : fetched[1][i][1] = k}}

MatchRowsOfPage == {k \in 1..Len(site_page) : site_page[k].kind = "match"}

(***************************************************************************)
(* The scrape cache over several runs of the script: loaded when the       *)
(* scraper is constructed, written by the tasks, saved at the end of       *)
(* run_full_refresh                                                        *)
(***************************************************************************)
PersistNow == 16

PersistNames == {AnaRod}

\* a save that writes nothing: the file keeps what it held
SaveNothing(file, cache) == file

\* _save_scrape_cache: json.dump(self.scrape_cache, f); the new content of the file
_save_scrape_cache(file, cache) == cache

\* _load_scrape_cache over a file this script wrote
_load_scrape_cache(file) == file

PersistInit ==
    /\ idx = EmptyIndex
    /\ IndexIdle
    /\ seed = 1
    /\ today = <<2025, 1, 5>>
    /\ cutoff_date = None
    /\ player_slugs = <<>>
    /\ playersDb = <<>>
    /\ matchesDb = <<>>
    /\ scraped = {}
    /\ runs = 1
    /\ built = {}
    /\ assigned = {}
    /\ RequestIdle /\ StoreIdle /\ SharedIdle
    /\ site_page = <<>>
    /\ fetched = None
    /\ run_started = 0
    /\ stopped = None
    /\ components = None
    /\ now = 0
    /\ markedAt = EmptyDict
    /\ lastCheck = None
    /\ cache_file = EmptyDict
    /\ scrape_cache = _load_scrape_cache(cache_file)
    /\ priority_players = <<>>
    /\ all_players = <<>>
    /\ player_queue = <<>>
    /\ max_workers = MaxWorkers
    /\ task = <<>>
    /\ phase = "collect"
    /\ collected = <<>>
    /\ completed = 0
    /\ players_found = 0
    /\ players_skipped = 0
    /\ players_not_found = <<>>
    /\ total_matches = 0

persistRest == <<idxVars, seed, today, cutoff_date, player_slugs, playersDb, matchesDb, built,
                 assigned, requestVars, storeVars, sharedVars, site_page, fetched, stopped, components,
                 priority_players, all_players, player_queue, max_workers, task, collected,
                 completed, players_found, players_skipped, players_not_found, total_matches>>

\* time passes, within a run or between two runs
PersistTick ==
    /\ now < PersistNow
    /\ now' = now + 1
    /\ UNCHANGED <<scrape_cache, markedAt, lastCheck, cache_file, phase, runs, scraped,
                   run_started, persistRest>>

\* _scrape_single_player of one subject of the run's queue; found: the subject has a
\* slug and its page was fetched
PersistTask(name, is_priority, found, scrape) ==
    /\ phase = "collect"
    /\ name \notin scraped
    /\ scraped' = scraped \cup {name}
    /\ lastCheck' = Some([name |-> name, is_priority |-> is_priority, result |-> scrape,
                           at |-> now,
                           marked |-> IF HasKey(markedAt, Lower(name))
                                      THEN Some(markedAt[Lower(name)]) ELSE None])
    /\ IF scrape /\ found
       THEN /\ scrape_cache' = _mark_player_scraped(scrape_cache, now, name)
            /\ markedAt' = DictPut(markedAt, Lower(name), now)
       ELSE UNCHANGED <<scrape_cache, markedAt>>
    /\ UNCHANGED <<now, cache_file, phase, runs, run_started, persistRest>>

\* the end of run_full_refresh: self._save_scrape_cache()
PersistSave ==
    /\ phase = "collect"
    /\ phase' = "summary"
    /\ cache_file' = _save_scrape_cache(cache_file, scrape_cache)
    /\ lastCheck' = None
    /\ UNCHANGED <<scrape_cache, now, markedAt, runs, scraped, run_started, persistRest>>

\* the script is run again: TennisDataScraper() loads the file
PersistNewRun ==
    /\ phase = "summary"
    /\ runs < MaxRuns
    /\ runs' = runs + 1
    /\ run_started' = now
    /\ scrape_cache' = _load_scrape_cache(cache_file)
    /\ scraped' = {}
    /\ phase' = "collect"
    /\ lastCheck' = None
    /\ UNCHANGED <<now, markedAt, cache_file, persistRest>>

PersistNext ==
    \/ PersistTick
    \/ \E name \in PersistNames, is_priority \in BOOLEAN, found \in BOOLEAN :
          PersistTask(name, is_priority, found,
                      _should_scrape_player(scrape_cache, now, name, is_priority))
    \/ PersistSave
    \/ PersistNewRun

SpecPersist == PersistInit /\ [][PersistNext]_vars

(***************************************************************************)
(* run_full_refresh stopped from outside: SIGINT raises KeyboardInterrupt  *)
(* in the main thread, which waits in as_completed                         *)
(***************************************************************************)
StopInit ==
    /\ RunInit
    /\ markedAt = EmptyDict
    /\ priority_players = <<>>
    /\ max_workers = 2

\* a pool thread takes the next work item of the queue; executor.shutdown(wait=True)
\* cancels none of them
PoolTaskStart(i) ==
    /\ phase \in {"collect", "interrupted"}
    /\ task[i].pc = "queued"
    /\ \A j \in 1..(i - 1) : task[j].pc # "queued"
    /\ Cardinality(Running) < max_workers
    /\ task' = [task EXCEPT ![i] =
                  IF _should_scrape_player(scrape_cache, now, task[i].name,
                                           task[i].is_priority)
                  THEN [@ EXCEPT !.pc = "running"]
                  ELSE [@ EXCEPT !.pc = "done", !.skipped = TRUE]]
    /\ UNCHANGED <<scrape_cache, markedAt, mainVars, runRest>>

\* KeyboardInterrupt is no Exception: it leaves the loop and the with block, whose
\* __exit__ is executor.shutdown(wait=True)
Interrupt ==
    /\ phase = "collect"
    /\ Len(collected) < Len(task)
    /\ phase' = "interrupted"
    /\ stopped' = Some({i \in 1..Len(task) : task[i].pc = "queued"})
    /\ UNCHANGED <<idxVars, buildVars, cacheVars, requestVars, pageVars, run_started, components,
                   storeVars, sharedVars, player_queue, max_workers, task, collected, completed,
                   players_found, players_skipped, players_not_found, total_matches,
                   cache_file, priority_players, all_players>>

\* the pool threads are joined and the exception leaves run_full_refresh and the script
InterruptExit ==
    /\ phase = "interrupted"
    /\ \A i \in 1..Len(task) : task[i].pc = "done"
    /\ phase' = "exited"
    /\ UNCHANGED <<idxVars, buildVars, cacheVars, requestVars, pageVars, run_started, stopped, components,
                   storeVars, sharedVars, player_queue, max_workers, task, collected,
                   completed, players_found, players_skipped, players_not_found,
                   total_matches, cache_file, priority_players, all_players>>

StopNext ==
    \/ \E i \in 1..Len(task) : PoolTaskStart(i)
    \/ \E i \in 1..Len(task), out \in FetchOutcomes : TaskFetch(i, out)
    \/ \E i \in 1..Len(task), saved \in BOOLEAN : TaskFinish(i, saved)
    \/ \E i \in 1..Len(task) : MainCollect(i)
    \/ MainSummary
    \/ Interrupt
    \/ InterruptExit

SpecStop == StopInit /\ [][StopNext]_vars

(***************************************************************************)
(* find_player_id called again and again between two add_player calls;     *)
(* lastFind holds the <<query, result>> of every call since the last       *)
(* add_player                                                              *)
(***************************************************************************)
\* 'Rod B.': no player of the site has this first initial
RodB == <<"R", "o", "d", " ", "B", ".">>

FindQueries == {AnaRod, LastInitialDot(AnaRod), RodB, <<"R", "o", "d">>}

\* a find_player_id that registers the names it could not resolve
IndexAfterRegistering(index, name) ==
    IF find_player_id(index, name) = None THEN add_player(index, -1, name) ELSE index

\* the five dicts after find_player_id(name): the method assigns to none of them
IndexAfterFind(index, name) == index

FindInit ==
    /\ idx = EmptyIndex
    /\ IndexIdle
    /\ BuildIdle
    /\ CacheIdle /\ RequestIdle /\ PageIdle /\ StoreIdle /\ RunIdle
    /\ section = <<>>
    /\ adding = None
    /\ finding = None
    /\ lastFind = {}

findRest == <<buildVars, cacheVars, requestVars, pageVars, run_started, stopped, components, storeVars,
              runVars, section, adding, finding>>

AddBetweenFinds(pid, name) ==
    /\ adds < MaxAdds
    /\ idx' = add_player(idx, pid, name)
    /\ adds' = adds + 1
    /\ lastFind' = {}
    /\ UNCHANGED <<lastQuery, lastResult, findRest>>

FindAgain(q) ==
    /\ lastQuery' = Some(q)
    /\ lastResult' = find_player_id(idx, q)
    /\ idx' = IndexAfterFind(idx, q)
    /\ lastFind' = lastFind \cup {<<q, find_player_id(idx, q)>>}
    /\ UNCHANGED <<adds, findRest>>

FindNext ==
    \/ \E pid \in PlayerIds, name \in CanonicalNames : AddBetweenFinds(pid, name)
    \/ \E q \in FindQueries : FindAgain(q)

SpecFind == FindInit /\ [][FindNext]_vars

(***************************************************************************)
(* _extract_components on its own: any string may be passed to it          *)
(***************************************************************************)
MaxNameLen == 5

NameChars == {"A", "b", " ", "."}

\* the strings of at most n characters
NameStrings(n) == UNION {[1..k -> NameChars] : k \in 0..n}

\* the statement of _extract_components that raises for name, or None:
\* parts[0][0] is the only subscript not guarded by a length test
ExtractRaises(name) ==
    LET parts == Split(_normalize(name))
    IN  IF /\ name # <<>> /\ Len(parts) >= 2
           /\ Len(parts[Len(parts)]) # 1 /\ Len(parts[1]) # 1
           /\ parts[1] = <<>>
        THEN Some([raised |-> "IndexError"]) ELSE None

\* the call about to be made: lastQuery is its argument
ComponentsInit ==
    /\ idx = EmptyIndex
    /\ adds = 0
    /\ lastQuery \in {Some(name) : name \in NameStrings(MaxNameLen)}
    /\ lastResult = None
    /\ BuildIdle
    /\ CacheIdle /\ RequestIdle /\ PageIdle /\ StoreIdle /\ RunIdle /\ SharedIdle

componentsRest == <<idxVars, buildVars, cacheVars, requestVars, pageVars, run_started,
                    stopped, storeVars, runVars, sharedVars>>

ExtractComponents ==
    /\ components = None
    /\ components' = IF ExtractRaises(lastQuery[1]) # None THEN ExtractRaises(lastQuery[1])
                     ELSE Some(_extract_components(lastQuery[1]))
    /\ UNCHANGED componentsRest

ComponentsNext == ExtractComponents

SpecComponents == ComponentsInit /\ [][ComponentsNext]_vars

(***************************************************************************)
(* The match id on its own: records built for subjects of the two tours,   *)
(* each handed to save_matches. A player id is hash % 10**9 with the sign  *)
(* of the tour, so one magnitude can be the id of an ATP and of a WTA      *)
(* player.                                                                 *)
(***************************************************************************)
MaxRecords == 2

IdMagnitudes == {101, 102}
OpponentMagnitudes == {103, 104}
MatchDates == {<<2025, 1, 3>>, <<2024, 12, 31>>}

\* the id of a player of the tour whose hash % 10**9 is h
TourId(h, tour) == IF tour = "WTA" THEN -Abs(h) ELSE h

IdsInit ==
    /\ idx = EmptyIndex
    /\ IndexIdle
    /\ BuildIdle
    /\ CacheIdle /\ RequestIdle /\ PageIdle /\ StoreIdle /\ RunIdle /\ SharedIdle

idsRest == <<idxVars, seed, today, cutoff_date, player_slugs, playersDb, scraped, runs,
             assigned, restVars>>

\* the record of one row of a subject's page, built and saved; built keeps the record
BuildAndSave(m) ==
    /\ Cardinality(built) < MaxRecords
    /\ built' = built \cup {m}
    /\ matchesDb' = save_matches(matchesDb, <<m>>)
    /\ UNCHANGED idsRest

IdsNext ==
    \E tour \in {"ATP", "WTA"}, h \in IdMagnitudes, o \in OpponentMagnitudes, d \in MatchDates, is_win \in BOOLEAN :
        BuildAndSave(MatchRecord(TourId(h, tour), AnaRod, tour, DatedRow(<<d[3], d[2]>>),
                                 HeaderRow(Header(d[1], "Doha"), [year |-> d[1]]), d, is_win,
                                 DisplayGruborB, TourId(o, tour)))

SpecIds == IdsInit /\ [][IdsNext]_vars

(***************************************************************************)
(* One row of a subject's page against any index: the players table of     *)
(* earlier runs is loaded into the matcher, save_player adds the subject,  *)
(* and fetch_player_matches resolves the opponent of the row               *)
(***************************************************************************)
RowSubjects == {AnaRod, BoGrubor}

RowNames == {DisplayRodA, DisplayGruborB, RodB}

\* the subject's entry of player_slugs, on either tour
SubjectSlugs ==
    {<< <<_normalize_name(AnaRod), [slug |-> SlugAna, tour |-> t]>> >> : t \in {"ATP", "WTA"}}
        \cup {<< <<_normalize_name(BoGrubor), [slug |-> SlugBo, tour |-> t]>> >> : t \in {"ATP", "WTA"}}

\* a page of one 'Winner-Loser' row, with or without a player link in the name cell
RowPages ==
    {<<Header(2025, "Doha"), MatchRow("M1", 3, 1, w, l, link, "6-4")>> :
        w \in RowNames, l \in RowNames, link \in {None, Some(SlugAl)}}

RowsInit ==
    /\ idx = EmptyIndex
    /\ IndexIdle
    /\ seed \in Seeds
    /\ today = <<2025, 1, 5>>
    /\ cutoff_date = Some(DateMinusDays(today, 365))
    /\ player_slugs \in SubjectSlugs
    /\ playersDb = <<>>
    /\ matchesDb = <<>>
    /\ scraped = {}
    /\ runs = 1
    /\ built = {}
    /\ assigned = {}
    /\ CacheIdle /\ RequestIdle /\ StoreIdle /\ RunIdle /\ SharedIdle
    /\ site_page \in RowPages
    /\ fetched = None
    /\ run_started = 0
    /\ stopped = None
    /\ components = None

rowsRest == <<adds, lastQuery, lastResult, seed, today, cutoff_date, playersDb, matchesDb,
              runs, built, cacheVars, requestVars, site_page, run_started, stopped,
              components, storeVars, runVars, sharedVars>>

\* _load_players_into_matcher: one row of the players table
RowsLoad(pid, name) ==
    /\ fetched = None
    /\ AddPlayer(pid, name)

\* save_player, then fetch_player_matches on the page served
RowsFetch(player_name, data, player_id, index) ==
    /\ idx' = index
    /\ assigned' = assigned \cup {<<data.slug, data.tour, player_id>>}
    /\ fetched' = Some(BuiltRows(index, seed, data.slug, player_name, data.tour,
                                 Some(site_page), today, cutoff_date))

RowsFound(player_name, found) ==
    /\ found[1] # None
    /\ player_slugs' = found[2]
    /\ RowsFetch(player_name, found[1][1],
                 HashId(seed, found[1][1].slug, found[1][1].tour),
                 add_player(idx, HashId(seed, found[1][1].slug, found[1][1].tour),
                            player_name))

\* _scrape_single_player for the subject player_slugs lists
RowsScrape(player_name) ==
    /\ fetched = None
    /\ RowsFound(player_name, find_player_slug(player_slugs, player_name, None))
    /\ scraped' = scraped \cup {player_name}
    /\ UNCHANGED rowsRest

RowsNext ==
    \/ \E pid \in PlayerIds, name \in CanonicalNames : RowsLoad(pid, name)
    \/ \E s \in RowSubjects : RowsScrape(s)

SpecRows == RowsInit /\ [][RowsNext]_vars

(***************************************************************************)
(* Claims                                                                  *)
(***************************************************************************)
IsFirstLast(name) ==
    LET p == Split(name) IN Len(p) = 2 /\ Len(p[1]) > 1 /\ Len(p[2]) > 1

\* C1: every known player whose canonical name is 'First Last' is found under
\* 'First Last', 'Last First' and 'Last F.', whatever the length of the last name.
C1_DocumentedFormatsResolve ==
    \A i \in 1..Len(idx.players) :
        LET pid == idx.players[i][1]
            name == idx.players[i][2]
        IN  IsFirstLast(name) =>
                /\ find_player_id(idx, name) = Some(pid)
                /\ find_player_id(idx, LastFirst(name)) = Some(pid)
                /\ find_player_id(idx, LastInitialDot(name)) = Some(pid)

\* C2: the same raw row of the same subject's page gets the same match id in every
\* pass, whatever was added to the index in between; stated for passes that run
\* under one string-hash seed, so that a difference comes from the index alone.
C2_SameRowSameId ==
    \A b1, b2 \in built :
        (b1.page = b2.page /\ b1.row = b2.row /\ b1.seed = b2.seed) => b1.id = b2.id

\* C3: within a run, the winner's page and the loser's page give a real match the
\* same id, so the table holds one row for it once both pages are scraped.
C3_OneIdPerRealMatch ==
    \A b1, b2 \in built : (b1.run = b2.run /\ b1.src = b2.src) => b1.id = b2.id

\* C4: the matches table has one row per id, every match a save_matches call has
\* gone through has its id in the table, and no step changes or removes a row that
\* is in the table: the fields of a row are those of its first insertion.
C4_OneRowPerIdFirstKept ==
    /\ [](/\ \A i, j \in 1..Len(matchesDb) : matchesDb[i].id = matchesDb[j].id => i = j
          /\ \A w \in Workers : saving[w] # None =>
                \A q \in 1..(saving[w][1].pos - 1) :
                    \E k \in 1..Len(matchesDb) : matchesDb[k].id = saving[w][1].matches[q].id)
    /\ [][\A k \in 1..Len(matchesDb) :
              k <= Len(matchesDb') /\ matchesDb'[k] = matchesDb[k]]_vars

\* a worker has just inserted a record whose id is in the table with other fields,
\* while another worker's save_matches call is under way
C4_DuplicateIgnored ==
    \E w \in Workers :
        /\ db_lock = Some(w)
        /\ saving[w][1].pos > 1
        /\ \E k \in 1..Len(matchesDb) :
              /\ matchesDb[k].id = saving[w][1].matches[saving[w][1].pos - 1].id
              /\ matchesDb[k] # saving[w][1].matches[saving[w][1].pos - 1]
        /\ \E v \in Workers \ {w} : saving[v] # None

\* C5: a slug and tour give the same player id in every run.
C5_SameIdEveryRun ==
    \A a1, a2 \in assigned : (a1[1] = a2[1] /\ a1[2] = a2[2]) => a1[3] = a2[3]

FreshEntry(name) ==
    /\ HasKey(markedAt, Lower(name))
    /\ now - markedAt[Lower(name)] < CACHE_TTL_DAYS * TicksPerDay

\* C6: a priority subject is always scraped; a non-priority subject is skipped exactly
\* when the cache has an entry under its lower-cased name that is younger than 7 days.
C6_SkipIffFreshEntry ==
    /\ \A name \in CacheNames :
          /\ _should_scrape_player(scrape_cache, now, name, TRUE)
          /\ ~_should_scrape_player(scrape_cache, now, name, FALSE) <=> FreshEntry(name)
    /\ lastCheck # None =>
          lastCheck[1].result = (lastCheck[1].is_priority \/ ~FreshEntry(lastCheck[1].name))

\* a non-priority check of a subject marked exactly 7 days ago says scrape, while
\* another subject's entry is fresh
C6_EntryJustExpired ==
    /\ lastCheck = Some([name |-> AnaRod, is_priority |-> FALSE, result |-> TRUE])
    /\ HasKey(scrape_cache, Lower(AnaRod))
    /\ now - markedAt[Lower(AnaRod)] = CACHE_TTL_DAYS * TicksPerDay
    /\ ~_should_scrape_player(scrape_cache, now, BoGrubor, FALSE)

\* C7: a task marks its subject in the cache only if its match-page fetch gave a
\* response.
C7_MarkedOnlyAfterResponse ==
    \A i \in 1..Len(task) : task[i].marked => task[i].response

\* C8: found + skipped + not found is the number of futures taken so far, and the
\* length of the queue at the summary.
C8_CountsAddUp ==
    /\ players_found + players_skipped + Len(players_not_found) = completed
    /\ phase = "summary" =>
          players_found + players_skipped + Len(players_not_found) = Len(player_queue)

\* the summary of a run with a raising task, a skipped one and a found one, taken
\* out of queue order
C8_MixedOutcomesSummed ==
    /\ phase = "summary"
    /\ \E i \in 1..Len(task) : task[i].raised
    /\ \E i \in 1..Len(task) : task[i].skipped
    /\ \E i \in 1..Len(task) : task[i].found /\ ~task[i].raised
    /\ \E a, b \in 1..Len(collected) : a < b /\ collected[a] > collected[b]

\* C9: the run reaches its summary, every queued subject taken exactly once.
C9_RunReachesSummary ==
    <>(/\ phase = "summary"
       /\ \A i \in 1..Len(player_queue) :
             Cardinality({k \in 1..Len(collected) : collected[k] = i}) = 1)

\* a summary after a task raised and a task further down the queue was scraped
C9_SummaryAfterRaise ==
    /\ phase = "summary"
    /\ \E i, j \in 1..Len(task) :
          i < j /\ task[i].raised /\ task[j].marked /\ task[j].matches > 0

\* C10: a call makes at most max_retries attempts and has returned after the last; a
\* 200 ends it with the response, a 404 ends it with None at that attempt.
C10_RetryCeiling ==
    /\ Len(responses) <= max_retries
    /\ \A k \in 1..Len(responses) :
          /\ responses[k] = "200" => (k = Len(responses) /\ returned = Some("response"))
          /\ responses[k] = "404" => (k = Len(responses) /\ returned = Some("None"))
    /\ returned = Some("response") =>
          (responses # <<>> /\ responses[Len(responses)] = "200")
    /\ (Len(responses) = max_retries /\ responses[max_retries] # "200") =>
          returned = Some("None")

\* three passes, throttled, refused and cut off, and the call gave up
C10_GaveUpAfterThree ==
    /\ returned = Some("None")
    /\ max_retries = DefaultMaxRetries
    /\ Len(responses) = DefaultMaxRetries
    /\ {"429", "500", "error"} \subseteq {responses[k] : k \in 1..Len(responses)}

\* C11: a task counted in players_found had a response to its match-page request:
\* a task whose fetch failed after the retries is not counted as found.
C11_FoundOnlyWithResponse ==
    players_found <= Cardinality({k \in 1..Len(collected) : task[collected[k]].response})

AddedTwice(a, pid, name) == add_player(a, pid, name) = a

\* C12: a second add_player with the same id and name leaves the index as the first
\* call left it.
C12_AddPlayerIdempotent ==
    \A pid \in PlayerIds, name \in CanonicalNames :
        AddedTwice(add_player(idx, pid, name), pid, name)

\* every entry of the dict-of-lists d carries the id and the current name of a player
ListsFollowPlayers(d) ==
    \A k \in DOMAIN d : \A j \in 1..Len(d[k]) :
        \E i \in 1..Len(idx.players) : idx.players[i] = <<d[k][j][1], d[k][j][2]>>

\* C13: every id in an index is a key of players, and every index entry of an id
\* comes from the name players holds for it now.
C13_IndexesFollowPlayers ==
    /\ \A k \in DOMAIN idx.by_full_name :
          \E i \in 1..Len(idx.players) :
              /\ idx.players[i][1] = idx.by_full_name[k]
              /\ k \in {_normalize(idx.players[i][2]),
                        RemoveChar(_normalize(idx.players[i][2]), " ")}
    /\ ListsFollowPlayers(idx.by_last_name)
    /\ ListsFollowPlayers(idx.by_name_parts)
    /\ ListsFollowPlayers(idx.by_last_initial)

\* C14: no two workers are at the same time inside a write of the same shared
\* resource (the index, the player and match tables, the scrape cache).
C14_OneWriterPerResource ==
    \A v, w \in Workers : v # w => Writes(section[v]) \cap Writes(section[w]) = {}

\* C15: a find_player_id call that runs while another worker adds a player does not
\* raise, and returns what it returns on the index before or after that add.
C15_FindSeesWholeAdds ==
    lastFind # None => ~lastFind[1].raised /\ lastFind[1].got \in lastFind[1].allowed

\* C16: a subject whose cache entry does not parse as a timestamp is scraped as if it
\* had no entry: its task does not fail on the cache check.
C16_BadEntryNeverFailsTask ==
    \A i \in 1..Len(task) :
        (HasKey(scrape_cache, Lower(task[i].name))
             /\ ~ParsesAsTimestamp(scrape_cache[Lower(task[i].name)]))
            => ~(task[i].raised /\ ~task[i].found)

\* C18: every id computed by hash(slug) % 10**9 and the sign rule is above zero for an
\* ATP player and below zero for a WTA player.
C18_IdSignFollowsTour ==
    \A a \in assigned : (a[2] = "ATP" => a[3] > 0) /\ (a[2] = "WTA" => a[3] < 0)

\* C17: the players table never holds a row of positive id and a row of negative id
\* for one name.
C17_OneSignPerName ==
    \A i, j \in 1..Len(playersDb) :
        playersDb[i].name = playersDb[j].name => ~(playersDb[i].id > 0 /\ playersDb[j].id < 0)

\* C20: when the tasks of 'Ana Grubor' (priority) and 'A. Grubor' of a first run are
\* done, both found the player under one id and the players table holds one row.
C20_AliasSharesIdentity ==
    (runs = 1 /\ \A i \in 1..Len(task) : task[i].pc = "done")
        => /\ \A i \in 1..Len(task) : task[i].found
           /\ Cardinality({a[3] : a \in assigned}) = 1
           /\ Len(playersDb) = 1

\* C19: the queue holds every priority name, flagged priority; every priority entry
\* comes before every other entry; no two entries are equal ignoring case.
C19_QueuePriorityFirstUnique ==
    phase = "collect" =>
        /\ \A j \in 1..Len(priority_players) : \E k \in 1..Len(player_queue) :
              /\ Lower(player_queue[k][1]) = Lower(priority_players[j])
              /\ player_queue[k][2]
        /\ \A j, k \in 1..Len(player_queue) :
              (j < k /\ ~player_queue[j][2]) => ~player_queue[k][2]
        /\ \A j, k \in 1..Len(player_queue) :
              j # k => Lower(player_queue[j][1]) # Lower(player_queue[k][1])

\* a queue built from a name that is in the priority set and, in another case, in the
\* static list, next to a name that is only in the static list
C19_SharedNameQueuedOnce ==
    /\ phase = "collect"
    /\ \E j \in 1..Len(priority_players), k \in 1..Len(all_players) :
          /\ priority_players[j] # all_players[k]
          /\ Lower(priority_players[j]) = Lower(all_players[k])
    /\ \E k \in 1..Len(player_queue) : ~player_queue[k][2]

\* C21: the winner and the loser of every saved match record have a row in the players
\* table and an entry in the matcher: an opponent given a hash id is registered.
C21_OpponentsRegistered ==
    \A k \in 1..Len(matchesDb) : \A pid \in {matchesDb[k].winner_id, matchesDb[k].loser_id} :
        /\ \E r \in 1..Len(playersDb) : playersDb[r].id = pid
        /\ \E i \in 1..Len(idx.players) : idx.players[i][1] = pid

\* C22: every record built from a page carries a date of the calendar, and a row whose
\* day and month give no date in the year of its tournament builds no record.
C22_BuiltDatesValid ==
    fetched # None =>
        /\ \A j \in 1..Len(fetched[1]) : ValidDate(fetched[1][j][2].date)
        /\ \A k \in MatchRowsOfPage :
              ~ValidDate(<<YearHintAt(k), site_page[k].date[1][2], site_page[k].date[1][1]>>)
                  => BuiltFrom(k) = {}

\* C23: read on January 5, a row dated 31.12. under a tournament of last year builds a
\* record dated December 31 of last year.
C23_Dec31OfLastYear ==
    (fetched # None /\ today[2] = 1 /\ today[3] = 5) =>
        \A k \in MatchRowsOfPage :
            (site_page[k].date = Some(<<31, 12>>) /\ YearHintAt(k) = today[1] - 1)
                => /\ BuiltFrom(k) # {}
                   /\ \A r \in BuiltFrom(k) : r.date = <<today[1] - 1, 12, 31>>

\* a page with such a row was fetched on a January 5
C23_Dec31RowFetched ==
    /\ fetched # None /\ today[2] = 1 /\ today[3] = 5
    /\ \E k \in MatchRowsOfPage :
          /\ site_page[k].date = Some(<<31, 12>>) /\ YearHintAt(k) = today[1] - 1
          /\ BuiltFrom(k) # {}

\* the row's day and month in today's year, when that is a date at most 5 days back and
\* the tournament is of last year
RecentRow(k) ==
    LET hintDate == <<YearHintAt(k), site_page[k].date[1][2], site_page[k].date[1][1]>>
        thisYear == <<today[1], site_page[k].date[1][2], site_page[k].date[1][1]>>
    IN  /\ YearHintAt(k) = today[1] - 1
        /\ ValidDate(hintDate) /\ ValidDate(thisYear)
        /\ Ordinal(today) - Ordinal(thisYear) \in 0..5
        /\ Ordinal(today) - Ordinal(hintDate) > 300

\* C24: a row under a tournament of last year whose day and month fall at most 5 days
\* before today builds a record dated in today's year.
C24_RecentRowInTodaysYear ==
    fetched # None =>
        \A k \in MatchRowsOfPage :
            RecentRow(k) => /\ BuiltFrom(k) # {}
                            /\ \A r \in BuiltFrom(k) : r.date[1] = today[1]

\* such a row was fetched: in January, and across the end of February
C24_RecentRowFetched ==
    /\ fetched # None
    /\ \E k \in MatchRowsOfPage :
          RecentRow(k) /\ BuiltFrom(k) # {} /\ site_page[k].date[1][2] < today[2]

\* the last check was of a non-priority subject marked in an earlier run
CheckedAfterEarlierMark ==
    /\ lastCheck # None
    /\ ~lastCheck[1].is_priority
    /\ lastCheck[1].marked # None

C26_CleanStop ==
    stopped # None =>
        /\ \A i \in stopped[1] : task[i].pc = "queued"
        /\ phase = "exited" =>
              \A i \in 1..Len(task) :
                  task[i].marked => HasKey(cache_file, Lower(task[i].name))

\* C26, its first part alone: no task is started after the stop request
C26_NoStartAfterStop == stopped # None => \A i \in stopped[1] : task[i].pc = "queued"

\* C26, its last part alone: the marks of completed tasks are written out
C26_MarksWrittenAtExit ==
    phase = "exited" =>
        \A i \in 1..Len(task) : task[i].marked => HasKey(cache_file, Lower(task[i].name))

NamesInOrder == <<AlRod, AnaRod, BoGrubor, NaLi>>

NameRank(name) == CHOOSE k \in 1..Len(NamesInOrder) : NamesInOrder[k] = name

\* the candidate of cands whose full name is the lexicographically first
LexFirst(cands) ==
    cands[CHOOSE k \in 1..Len(cands) :
              \A j \in 1..Len(cands) :
                  \/ NameRank(cands[k][2]) < NameRank(cands[j][2])
                  \/ NameRank(cands[k][2]) = NameRank(cands[j][2]) /\ k <= j]

\* the candidates under 'rod' whose first initial is 'a'
RodACandidates ==
    IF HasKey(idx.by_last_name, <<"r", "o", "d">>)
    THEN MatchingInitial(idx.by_last_name[<<"r", "o", "d">>], <<"a">>)
    ELSE <<>>

\* C28: when several candidates under the query's last name share its initial, the
\* result is the lexicographically first of those with a positive id (of all of them
\* when none is positive), whatever the order of the add_player calls.
C28_LexFirstPositiveCandidate ==
    \A c \in lastFind :
        c[1] = LastInitialDot(AnaRod) /\ Len(RodACandidates) >= 2 =>
            c[2] = Some(LexFirst(IF Positive(RodACandidates) # <<>>
                                 THEN Positive(RodACandidates) ELSE RodACandidates)[1])

\* all the candidates under 'rod'
RodCandidates ==
    IF HasKey(idx.by_last_name, <<"r", "o", "d">>) THEN idx.by_last_name[<<"r", "o", "d">>]
    ELSE <<>>

\* C29: a query with an initial does not resolve, through the single-candidate shortcut
\* of step 2, to the only player under its name part when that player's first initial
\* is another one.
C29_NoShortcutAgainstInitial ==
    \A c \in lastFind :
        (/\ c[1] = RodB
         /\ Len(RodCandidates) = 1
         /\ MatchingInitial(RodCandidates, <<"b">>) = <<>>)
            => /\ c[2] # Some(RodCandidates[1][1])
               /\ Strategy2(idx, << <<"r", "o", "d">> >>, 1, <<"b">>) = None

\* C30: while every answer of the call is a 429, each pause the call takes is at least
\* twice the pause before it.
C30_PausesAtLeastDouble ==
    \A k \in 1..(Len(waits) - 1) :
        (k + 1 <= Len(responses) /\ \A j \in 1..(k + 1) : responses[j] = "429")
            => waits[k + 1] >= 2 * waits[k]

(***************************************************************************)
(* C31: _extract_components never fails on any string, and what it returns *)
(* follows the rule on the parts of the normalised name: no parts, all     *)
(* fields empty; one part, it is the last name; two or more parts: a       *)
(* one-character last part is the initial and the first part the last      *)
(* name; otherwise a one-character first part is the initial and the last  *)
(* part the last name; otherwise the first part is the first name, the     *)
(* last part the last name and the initial the first name's first          *)
(* character.                                                              *)
(***************************************************************************)
C31_ComponentsFollowRule ==
    components # None =>
        LET c == components[1]
            parts == Split(_normalize(lastQuery[1]))
            n == Len(parts)
        IN  /\ DOMAIN c = {"last_name", "first_name", "first_initial", "all_parts"}
            /\ n = 0 => /\ c.last_name = <<>> /\ c.first_name = <<>>
                        /\ c.first_initial = <<>> /\ c.all_parts = <<>>
            /\ n = 1 => c.last_name = parts[1]
            /\ n >= 2 =>
                IF Len(parts[n]) = 1
                THEN c.first_initial = parts[n] /\ c.last_name = parts[1]
                ELSE IF Len(parts[1]) = 1
                THEN c.first_initial = parts[1] /\ c.last_name = parts[n]
                ELSE /\ c.first_name = parts[1] /\ c.last_name = parts[n]
                     /\ c.first_initial = <<parts[1][1]>>

\* 'A b.' was decomposed: both ends are one character, the last one is the initial
C31_BothEndsSingle ==
    /\ lastQuery = Some(<<"A", " ", "b", ".">>)
    /\ components # None
    /\ components[1].first_initial = <<"b">>
    /\ components[1].last_name = <<"a">>

(***************************************************************************)
(* C32: whatever the day and month of the row, the year of its tournament  *)
(* header (past, current or next) and today, the date of a built record is *)
(* never after today.                                                      *)
(***************************************************************************)
C32_NoRecordDatedAfterToday ==
    fetched # None =>
        \A j \in 1..Len(fetched[1]) : ~DateStrLess(today, fetched[1][j][2].date)

\* the part of C32 that holds: a record dated with a date of the calendar is not
\* after today
C32_CalendarDatesNotAfterToday ==
    fetched # None =>
        \A j \in 1..Len(fetched[1]) :
            ValidDate(fetched[1][j][2].date) => ~DateAfter(fetched[1][j][2].date, today)

(***************************************************************************)
(* C33: in every index add_player calls can build, find_player_id returns  *)
(* None or an id that is a key of players; on the empty index it returns   *)
(* None for every query.                                                   *)
(***************************************************************************)
C33_FoundIdIsAPlayer ==
    \A q \in Queries \cup FindQueries :
        LET r == find_player_id(idx, q)
        IN  /\ r # None => \E i \in 1..Len(idx.players) : idx.players[i][1] = r[1]
            /\ idx.players = <<>> => r = None

\* a query in 'Last F.' form was answered with the id of a registered player
C33_InitialQueryFound ==
    /\ lastQuery = Some(LastInitialDot(BoGrubor))
    /\ lastResult # None
    /\ \E i \in 1..Len(idx.players) : idx.players[i] = <<lastResult[1], BoGrubor>>

(***************************************************************************)
(* C34: the match id is injective on (date, winner id, loser id): two      *)
(* records built that differ in date, in winner id or in loser id, ids     *)
(* that differ only in sign included, have different match ids, so that    *)
(* every record built is in the matches table after its save_matches.      *)
(***************************************************************************)
C34_MatchIdInjective ==
    /\ \A a, b \in built :
          (a.date # b.date \/ a.winner_id # b.winner_id \/ a.loser_id # b.loser_id)
              => a.id # b.id
    /\ \A a \in built : \E k \in 1..Len(matchesDb) :
          /\ matchesDb[k].date = a.date
          /\ matchesDb[k].winner_id = a.winner_id
          /\ matchesDb[k].loser_id = a.loser_id

\* the part of C34 that holds: records that differ in date or in the magnitude of an
\* id have different match ids
C34_InjectiveUpToSign ==
    \A a, b \in built :
        (a.date # b.date \/ Abs(a.winner_id) # Abs(b.winner_id)
                         \/ Abs(a.loser_id) # Abs(b.loser_id))
            => a.id # b.id

(***************************************************************************)
(* C35: in every record built for a subject, the winner id and the loser   *)
(* id have the sign of the record's tour: both above zero for ATP, both    *)
(* below zero for WTA, whether the opponent's id is the matcher's answer   *)
(* or the hash fallback.                                                   *)
(***************************************************************************)
C35_RecordIdsHaveTourSign ==
    fetched # None =>
        \A j \in 1..Len(fetched[1]) :
            LET m == fetched[1][j][2]
            IN  /\ m.tour = "ATP" => (m.winner_id > 0 /\ m.loser_id > 0)
                /\ m.tour = "WTA" => (m.winner_id < 0 /\ m.loser_id < 0)

(***************************************************************************)
(* C36: no record built has its winner id equal to its loser id: whatever  *)
(* the subject, the 'Winner-Loser' text of the row and the index, the      *)
(* opponent of the row is the other player and never gets the subject's    *)
(* own id.                                                                 *)
(***************************************************************************)
C36_WinnerIsNotLoser ==
    fetched # None =>
        \A j \in 1..Len(fetched[1]) : fetched[1][j][2].winner_id # fetched[1][j][2].loser_id

====
